---- MODULE Spec2Model ----
(***************************************************************************)
(* karmalentil / potk: the sequential geometric-optics raytracer           *)
(* (python/potk/simple_raytracer.py) and the polynomial degree search      *)
(* (python/potk/poly_fitter.py).                                           *)
(*                                                                         *)
(* Floating-point numbers are modelled in fixed point: a length is an      *)
(* integer number of 1/PosScale mm, a direction component or cosine an     *)
(* integer number of 1/DirScale, a refractive index an integer number of   *)
(* 1/IndexScale.  NaN is a value of its own that every arithmetic          *)
(* operation propagates and every comparison answers FALSE to, as IEEE     *)
(* arithmetic does.                                                        *)
(***************************************************************************)
EXTENDS Integers, Sequences, FiniteSets, TLC

\* ------------------------------------------------------------------------
\* Bounds of the model
\* ------------------------------------------------------------------------

\* the largest number of rays in one batch
MaxRays == 2

\* the largest number of rays in one batch of a raytracer that is called
\* again and again
MaxRepeatRays == 2

\* the number of concurrent workers a batch is partitioned across, and the
\* largest number of rays in such a batch
NumWorkers == 2
MaxWorkerRays == 2

\* the number of polynomial degrees the degree search ranges over
MaxDegreeSpan == 3

\* the largest side of the sensor grid a fitter is asked to sample
MaxGrid == 3

\* the largest number of rows handed to fit_polynomial_from_data, and the
\* largest degree asked of it
MaxDataRows == 2
MaxDataDegree == 5

\* the largest polynomial degree a fitter is built with
MaxFitDegree == 1

\* ------------------------------------------------------------------------
\* Number representation
\* ------------------------------------------------------------------------

\* units per millimetre of a position, a radius, a thickness, a diameter
PosScale == 100

\* units per 1.0 of a direction component, a cosine, eta, k
DirScale == 1000

\* units per 1.0 of a refractive index
IndexScale == 10000

\* np.nan: outside the range of every number the model computes
NaN == 1000000000

\* Python's None
None == <<>>

IsNaN(a) == a = NaN

Abs(a) == IF a < 0 THEN -a ELSE a

\* a / b rounded to the nearest unit, half away from zero (b # 0)
RDiv(a, b) ==
    LET n == (2 * Abs(a) + Abs(b)) \div (2 * Abs(b))
    IN  IF (a < 0) = (b < 0) THEN n ELSE -n

RECURSIVE ISqrt(_)
\* floor of the square root of n >= 0
ISqrt(n) ==
    IF n < 2 THEN n
    ELSE LET s == 2 * ISqrt(n \div 4)
         IN  IF (s + 1) * (s + 1) <= n THEN s + 1 ELSE s

\* IEEE comparisons: FALSE as soon as one side is NaN
FLt(a, b) == ~IsNaN(a) /\ ~IsNaN(b) /\ a < b
FGt(a, b) == ~IsNaN(a) /\ ~IsNaN(b) /\ a > b
FLe(a, b) == ~IsNaN(a) /\ ~IsNaN(b) /\ a <= b

FAbs(a) == IF IsNaN(a) THEN NaN ELSE Abs(a)
FNeg(a) == IF IsNaN(a) THEN NaN ELSE -a
FAdd(a, b) == IF IsNaN(a) \/ IsNaN(b) THEN NaN ELSE a + b
FSub(a, b) == IF IsNaN(a) \/ IsNaN(b) THEN NaN ELSE a - b

\* a * b where the product carries the scale s twice
FMul(a, b, s) == IF IsNaN(a) \/ IsNaN(b) THEN NaN ELSE RDiv(a * b, s)

\* a / b where the quotient is to carry the scale s; 0/0 is NaN
FDiv(a, b, s) ==
    IF IsNaN(a) \/ IsNaN(b) \/ b = 0 THEN NaN ELSE RDiv(a * s, b)

\* np.sqrt of a value that carries the scale s twice (a square): scale s
FSqrt2(a) == IF IsNaN(a) \/ a < 0 THEN NaN ELSE ISqrt(a)

\* np.sqrt of a value of scale s: scale s
FSqrt(a, s) == IF IsNaN(a) \/ a < 0 THEN NaN ELSE ISqrt(a * s)

\* ------------------------------------------------------------------------
\* 3-vectors (numpy arrays of shape (3,))
\* ------------------------------------------------------------------------

NaN3 == <<NaN, NaN, NaN>>
Zero3 == <<0, 0, 0>>

VNeg(v) == <<FNeg(v[1]), FNeg(v[2]), FNeg(v[3])>>
VAdd(u, v) == <<FAdd(u[1], v[1]), FAdd(u[2], v[2]), FAdd(u[3], v[3])>>

\* t * v where t is a length and v a direction: a position offset
VScale(t, v, s) == <<FMul(t, v[1], s), FMul(t, v[2], s), FMul(t, v[3], s)>>

\* x^2 + y^2 + z^2, at twice the scale of the components
VSumSq(v) ==
    IF IsNaN(v[1]) \/ IsNaN(v[2]) \/ IsNaN(v[3]) THEN NaN
    ELSE v[1] * v[1] + v[2] * v[2] + v[3] * v[3]

\* np.linalg.norm(v), at the scale of the components
VNorm(v) == FSqrt2(VSumSq(v))

\* np.dot(u, v) of two directions, at DirScale
VDot(u, v) ==
    FAdd(FAdd(FMul(u[1], v[1], DirScale), FMul(u[2], v[2], DirScale)),
         FMul(u[3], v[3], DirScale))

\* v / len as a direction (components at DirScale)
VUnit(v, len) ==
    <<FDiv(v[1], len, DirScale), FDiv(v[2], len, DirScale),
      FDiv(v[3], len, DirScale)>>

\* ------------------------------------------------------------------------
\* SimpleLensElement
\* ------------------------------------------------------------------------

\* the refractive index of air, the medium a trace starts in
AirIndex == IndexScale

\* SimpleLensElement.__init__: radius, thickness, diameter in position units
SimpleLensElement(radius, thickness, material, diameter) ==
    [radius |-> radius, thickness |-> thickness, material |-> material,
     diameter |-> diameter]

\* self._index_map.get(material, 1.0)
_index_map(material) ==
    CASE material = "air" -> IndexScale
      [] material = "N-BK7" -> 15168
      [] material = "N-SK16" -> 16204
      [] material = "N-LAK21" -> 16405
      [] material = "SF5" -> 16727
      [] material = "N-SF6" -> 18052
      [] material = "N-LASF9" -> 18501
      [] OTHER -> IndexScale

\* get_index divides 550.0 by the wavelength (two Python floats) for a glass:
\* a wavelength of 0 raises ZeroDivisionError there
get_index_raises(element, wavelength) ==
    /\ _index_map(element.material) > IndexScale
    /\ wavelength # 550
    /\ wavelength = 0

\* SimpleLensElement.get_index: the index at a wavelength (nm)
get_index(element, wavelength) ==
    LET base_index == _index_map(element.material)
        wl_factor == RDiv(550 * 550 * DirScale, wavelength * wavelength)
        dispersion == RDiv(base_index - IndexScale, 100)
    IN  IF base_index > IndexScale /\ wavelength # 550
        THEN base_index + RDiv(dispersion * (wl_factor - DirScale), DirScale)
        ELSE base_index

\* ------------------------------------------------------------------------
\* SimpleRaytracer._refract
\* ------------------------------------------------------------------------

\* Snell's law; None on total internal reflection
_refract(incident, normal, n1, n2) ==
    LET dot == FNeg(VDot(incident, normal))
        flip == FLt(dot, 0)
        cos_i == IF flip THEN FNeg(dot) ELSE dot
        nrm == IF flip THEN VNeg(normal) ELSE normal
        eta == FDiv(n1, n2, DirScale)
        eta2 == FMul(eta, eta, DirScale)
        k == FSub(DirScale,
                  FMul(eta2, FSub(DirScale, FMul(cos_i, cos_i, DirScale)),
                       DirScale))
        coef == FSub(FMul(eta, cos_i, DirScale), FSqrt(k, DirScale))
        refracted == VAdd(VScale(eta, incident, DirScale),
                          VScale(coef, nrm, DirScale))
    IN  IF FLt(k, 0) THEN None
        ELSE VUnit(refracted, VNorm(refracted))

\* ------------------------------------------------------------------------
\* SimpleRaytracer.trace_ray
\* ------------------------------------------------------------------------

\* The state of one call of trace_ray.  elements, ray_origin and
\* ray_direction are the caller's objects as the call leaves them; pos,
\* direction, current_index and z_vertex are the call's locals; ret is
\* "run" while the loop runs and names the return statement taken after
\* a failure.

\* direction = ray_direction / np.linalg.norm(ray_direction): a new array
NormalizeDirectionInPlace(ray_direction) ==
    LET d == VUnit(ray_direction, VNorm(ray_direction))
    IN  [direction |-> d, ray_direction |-> d]

NormalizeDirectionSkipped(ray_direction) ==
    [direction |-> ray_direction, ray_direction |-> ray_direction]

NormalizeDirection(ray_direction) ==
    [direction |-> VUnit(ray_direction, VNorm(ray_direction)),
     ray_direction |-> ray_direction]

\* lines 121-126: the locals before the first surface
TraceStart(elements, ray_origin, ray_direction) ==
    LET n == NormalizeDirection(ray_direction)
    IN  [elements |-> elements,
         ray_origin |-> ray_origin,
         ray_direction |-> n.ray_direction,
         pos |-> ray_origin,
         direction |-> n.direction,
         current_index |-> AirIndex,
         z_vertex |-> 0,
         ret |-> "run"]

Fail(st, why) == [st EXCEPT !.ret = why]

\* z_vertex += element.thickness, on the local z_vertex
AdvanceVertexOnElement(st, i) ==
    [st EXCEPT !.z_vertex = @ + st.elements[i].thickness,
               !.elements[i].thickness = st.z_vertex + @]

AdvanceVertexSkipped(st, i) == st

AdvanceVertex(st, i) ==
    [st EXCEPT !.z_vertex = @ + st.elements[i].thickness]

\* lines 183-193: refract at the surface, then advance to the next vertex
RefractAt(st, i, pos, normal, wavelength) ==
    LET next_index == get_index(st.elements[i], wavelength)
        direction == _refract(st.direction, normal, st.current_index,
                              next_index)
    IN  IF get_index_raises(st.elements[i], wavelength)
        THEN Fail(st, "ZeroDivisionError")
        ELSE IF direction = None THEN Fail(st, "tir")
        ELSE AdvanceVertex([st EXCEPT !.pos = pos,
                                      !.direction = direction,
                                      !.current_index = next_index], i)

\* r > element.diameter / 2, with r taken on the vertex plane
Vignetted(r, element) == FGt(r, RDiv(element.diameter, 2))

\* lines 145-177: the curved surface
CurvedSurface(st, i, r, wavelength) ==
    LET element == st.elements[i]
        radius == element.radius
        r_sqr == FMul(r, r, 1)
        root == FSqrt2(FSub(radius * radius, r_sqr))
        sag == IF radius > 0 THEN FSub(radius, root)
               ELSE FAdd(-Abs(radius), root)
        z_surface == FAdd(st.z_vertex, sag)
        t_to_surface == FDiv(FSub(z_surface, st.pos[3]), st.direction[3],
                             DirScale)
        pos == VAdd(st.pos, VScale(t_to_surface, st.direction, DirScale))
        normal == <<pos[1], pos[2], sag>>
        normal_len == VNorm(normal)
        unit == VUnit(normal, normal_len)
    IN  IF ~FLt(r_sqr, radius * radius) THEN Fail(st, "outside")
        ELSE RefractAt(st, i, pos,
                       IF FGt(normal_len, 0)
                       THEN (IF radius < 0 THEN VNeg(unit) ELSE unit)
                       ELSE <<0, 0, DirScale>>,
                       wavelength)

\* lines 128-193: one iteration of the loop over the elements
SurfaceStep(st, i, wavelength) ==
    LET element == st.elements[i]
        t_to_vertex == FDiv(FSub(st.z_vertex, st.pos[3]), st.direction[3],
                            DirScale)
        pos_at_vertex == VAdd(st.pos,
                              VScale(t_to_vertex, st.direction, DirScale))
        r == FSqrt2(FAdd(FMul(pos_at_vertex[1], pos_at_vertex[1], 1),
                         FMul(pos_at_vertex[2], pos_at_vertex[2], 1)))
    IN  IF FLt(FAbs(st.direction[3]), 1) THEN Fail(st, "parallel")
        ELSE IF FLt(t_to_vertex, 0) THEN Fail(st, "behind")
        ELSE IF Vignetted(r, element) THEN Fail(st, "vignetted")
        ELSE IF Abs(element.radius) > 0
             THEN CurvedSurface(st, i, r, wavelength)
             ELSE RefractAt(st, i, pos_at_vertex, <<0, 0, DirScale>>,
                            wavelength)

RECURSIVE TraceFrom(_, _, _, _)
\* the loop from element i up to, and without, element last + 1
TraceFrom(st, i, last, wavelength) ==
    IF i > last \/ st.ret # "run" THEN st
    ELSE TraceFrom(SurfaceStep(st, i, wavelength), i + 1, last, wavelength)

\* the state of the call when it returns
TraceState(elements, ray_origin, ray_direction, wavelength) ==
    TraceFrom(TraceStart(elements, ray_origin, ray_direction), 1,
              Len(elements), wavelength)

\* what trace_ray returns: (pos, direction), or (None, None)
TraceReturn(st) ==
    IF st.ret = "run" THEN <<st.pos, st.direction>> ELSE <<None, None>>

trace_ray(elements, ray_origin, ray_direction, wavelength) ==
    TraceReturn(TraceState(elements, ray_origin, ray_direction, wavelength))

\* ------------------------------------------------------------------------
\* Inputs
\* ------------------------------------------------------------------------

\* test_numpy_raytracer_fixed.py: the biconvex N-BK7 lens
TestLens ==
    <<SimpleLensElement(50 * PosScale, 10 * PosScale, "N-BK7", 40 * PosScale),
      SimpleLensElement(-50 * PosScale, 100 * PosScale, "air", 40 * PosScale)>>

\* a plane-parallel N-BK7 window
WindowLens ==
    <<SimpleLensElement(0, 5 * PosScale, "N-BK7", 40 * PosScale),
      SimpleLensElement(0, 10 * PosScale, "air", 40 * PosScale)>>

\* one strongly curved surface, narrower than its aperture
BallLens ==
    <<SimpleLensElement(10 * PosScale, 5 * PosScale, "SF5", 40 * PosScale)>>

\* the first surface of TestLens alone
FrontLens ==
    <<SimpleLensElement(50 * PosScale, 10 * PosScale, "N-BK7", 40 * PosScale)>>

\* a concave first surface
ConcaveLens ==
    <<SimpleLensElement(-50 * PosScale, 5 * PosScale, "N-SF6", 40 * PosScale)>>

Lenses == {<<>>, TestLens, WindowLens, BallLens, FrontLens, ConcaveLens}

Ray(ox, oy, oz, dx, dy, dz) == [origin |-> <<ox, oy, oz>>,
                                direction |-> <<dx, dy, dz>>]

\* the on-axis ray of test_numpy_raytracer_fixed.py
OnAxisRay == Ray(0, 0, -10 * PosScale, 0, 0, DirScale)

Rays ==
    {OnAxisRay,
     \* 5 mm off axis, parallel to the axis
     Ray(5 * PosScale, 0, -10 * PosScale, 0, 0, DirScale),
     \* direction [0.1, 0, 1], not of unit length
     Ray(0, 0, -10 * PosScale, 100, 0, DirScale),
     \* reaches the first vertex plane 19 mm off axis, heading outwards
     Ray(15 * PosScale, 0, -10 * PosScale, 400, 0, DirScale),
     \* 25 mm off axis: outside every aperture
     Ray(25 * PosScale, 0, -10 * PosScale, 0, 0, DirScale),
     \* starts behind the first vertex plane
     Ray(0, 0, 5 * PosScale, 0, 0, DirScale),
     \* perpendicular to the axis
     Ray(0, 0, -10 * PosScale, DirScale, 0, 0),
     \* starts on the first vertex plane, tilted, of unit length
     Ray(0, 0, 0, 300, 0, 954),
     \* starts on the first vertex plane, 5 mm off axis
     Ray(5 * PosScale, 0, 0, 0, 0, DirScale),
     \* the zero direction: its normalisation is 0/0
     Ray(0, 0, -10 * PosScale, 0, 0, 0)}

Wavelengths == {550, 450, 0}

\* ------------------------------------------------------------------------
\* State
\* ------------------------------------------------------------------------

VARIABLES
    elements,        \* SimpleRaytracer.elements
    ray_origins,     \* the caller's array of origins, one row per ray
    ray_directions,  \* the caller's array of directions
    wavelength,      \* the wavelength argument of the call
    pc,              \* "idle", "batch", "returned", "ray_returned", "raised"
    i,               \* the loop variable of trace_rays_batch (from 1)
    exit_pos,        \* trace_rays_batch: exit_pos
    exit_dir,        \* trace_rays_batch: exit_dir
    result,          \* what a single call of trace_ray returned
    entry,           \* the caller's objects as they were when the call began
    memo,            \* an earlier call of trace_rays_batch, as remembered
    owner,           \* the worker each ray of a partitioned batch is given to
    w_ray,           \* per worker: the ray it is tracing, 0 when between rays
    frames,          \* per call frame of trace_ray: the call's locals
    done,            \* the rays whose rows have been stored
    opt_pc,          \* optimize_degree: "idle", "for", "fit", "validate",
                     \* "compare", "return", "done", "raised"
    min_degree,      \* optimize_degree: the argument min_degree
    max_degree,      \* optimize_degree: the argument max_degree
    target_error,    \* optimize_degree: the argument target_error
    range_next,      \* the next value of range(min_degree, max_degree + 1)
    degree,          \* optimize_degree: the loop variable
    self_degree,     \* PolyFitter.degree
    fitter_degree,   \* PolyFitter._fitter.degree
    coeffs,          \* optimize_degree: coeffs, as the degree they fit
    error,           \* optimize_degree: error
    best_degree,     \* optimize_degree: best_degree
    best_error,      \* optimize_degree: best_error
    opt_ret,         \* what optimize_degree returned
    fits,            \* the degrees fit() was called with, in order
    validated,       \* the degrees validate() was called with, and its answers
    tool_report,     \* fit_lens: what the tool printed about the degree search
    fit_pc,          \* "idle", or the call of the fitter that has returned
    samples,         \* NumpyPolyFitter.samples
    num_coeffs,      \* NumpyPolyFitter.num_coeffs
    rng,             \* the state of the process-wide generator np.random
    gen_prev,        \* the call of _generate_sample_points before the last
    gen_last,        \* the last call of _generate_sample_points
    last_fit,        \* the last call of NumpyPolyFitter.fit
    last_validate,   \* the last call of NumpyPolyFitter.validate
    data_fit,        \* the last call of fit_polynomial_from_data
    focal,           \* the last call of compute_focal_length
    files,           \* the lens database directory: lens id -> JSON content
    lenses,          \* LensDatabase.lenses
    _validated_lenses,  \* LensDatabase._validated_lenses
    _menu_cache,     \* LensDatabase._menu_cache: <<>> for None, or <<menu>>
    last_call        \* the last call of the database or of VEXGenerator

traceVars == <<elements, ray_origins, ray_directions, wavelength, pc, i,
               exit_pos, exit_dir, result, entry>>

repeatVars == <<memo>>

workerVars == <<owner, w_ray, frames, done>>

optVars == <<opt_pc, min_degree, max_degree, target_error, range_next, degree,
             self_degree, fitter_degree, coeffs, error, best_degree,
             best_error, opt_ret, fits, validated>>

toolVars == <<tool_report>>

fitVars == <<fit_pc, samples, num_coeffs, rng, gen_prev, gen_last, last_fit,
             last_validate, data_fit>>

focalVars == <<focal>>

dbVars == <<files, lenses, _validated_lenses, _menu_cache, last_call>>

vars == <<traceVars, repeatVars, workerVars, optVars, toolVars, fitVars,
          focalVars, dbVars>>

\* what the raytracer's calls leave alone
outsideTrace == <<repeatVars, workerVars, optVars, toolVars, fitVars,
                  focalVars, dbVars>>

\* what the caller of the raytracer leaves alone
outsideRepeat == <<workerVars, optVars, toolVars, fitVars, focalVars, dbVars>>

\* what the workers leave alone
outsideWorkers == <<repeatVars, optVars, toolVars, fitVars, focalVars,
                    dbVars>>

\* what the degree search leaves alone
outsideOpt == <<traceVars, repeatVars, workerVars, toolVars, fitVars,
                focalVars, dbVars>>

\* what the fit_lens tool leaves alone
outsideTool == <<traceVars, repeatVars, workerVars, fitVars, focalVars,
                 dbVars>>

\* the degree search's own state, but for the fitter's degree
searchVars == <<opt_pc, min_degree, max_degree, target_error, range_next,
                degree, self_degree, coeffs, error, best_degree, best_error,
                opt_ret, fits, validated>>

\* what the calls of the NumPy fitter leave alone
outsideFit == <<repeatVars, workerVars, searchVars, toolVars, focalVars,
                dbVars>>

num_rays == Len(ray_origins)

Workers == 1..NumWorkers

\* units per millimetre of an RMS error
ErrScale == 1000

\* units per 1.0 of a normalised sensor or aperture coordinate, of a random
\* number in [0, 1), of a basis monomial
NormScale == 1000

\* (degree + 1) * (degree + 2) // 2
NumCoeffsSquare(d) == (d + 1) * (d + 1)

NumCoeffs(d) == ((d + 1) * (d + 2)) \div 2

\* np.random keeps one generator for the whole process; the operating
\* system seeds it, so a process starts in any of its states
RngModulus == 4
RngStates == 0..(RngModulus - 1)

\* float('inf'): above every error, below nothing
Inf == NaN - 1

\* PolyFitter.__init__(degree=7)
DefaultDegree == 7

\* optimize_degree(min_degree=5, max_degree=9, target_error=0.01)
DefaultMinDegree == 5
DefaultMaxDegree == 9
DefaultTargetError == ErrScale \div 100

\* a call frame of trace_ray: the locals st and the loop's position k
NoFrame == [k |-> 1, st |-> TraceStart(<<>>, Zero3, <<0, 0, DirScale>>)]

Snapshot(els, origins, directions) ==
    [elements |-> els, ray_origins |-> origins, ray_directions |-> directions]

\* a process whose np.random starts in one of the states seeds, with a
\* raytracer over one of the lenses and no call made yet
InitOutsideDb(among, seeds) ==
    /\ elements \in among
    /\ ray_origins = <<>>
    /\ ray_directions = <<>>
    /\ wavelength = 550
    /\ pc = "idle"
    /\ i = 1
    /\ exit_pos = <<>>
    /\ exit_dir = <<>>
    /\ result = <<None, None>>
    /\ entry = Snapshot(elements, <<>>, <<>>)
    /\ memo = <<>>
    /\ owner = <<>>
    /\ w_ray = [w \in Workers |-> 0]
    /\ frames = [w \in Workers |-> NoFrame]
    /\ done = {}
    /\ opt_pc = "idle"
    /\ min_degree = DefaultMinDegree
    /\ max_degree = DefaultMaxDegree
    /\ target_error = DefaultTargetError
    /\ range_next = 0
    /\ degree = 0
    /\ self_degree = DefaultDegree
    /\ fitter_degree = DefaultDegree
    /\ coeffs = 0
    /\ error = 0
    /\ best_degree = 0
    /\ best_error = 0
    /\ opt_ret = <<>>
    /\ fits = <<>>
    /\ validated = <<>>
    /\ tool_report = ""
    /\ fit_pc = "idle"
    /\ samples = 1
    /\ num_coeffs = NumCoeffs(DefaultDegree)
    /\ rng \in seeds
    /\ gen_prev = <<>>
    /\ gen_last = <<>>
    /\ last_fit = <<>>
    /\ last_validate = <<>>
    /\ data_fit = <<>>
    /\ focal = <<>>

\* a Python dict with no key
EmptyDict == [key \in {} |-> 0]

\* no lens database has been constructed
NoDatabase ==
    /\ files = EmptyDict
    /\ lenses = EmptyDict
    /\ _validated_lenses = EmptyDict
    /\ _menu_cache = <<>>
    /\ last_call = <<>>

InitSeeded(among, seeds) == InitOutsideDb(among, seeds) /\ NoDatabase

\* SimpleRaytracer.__init__: a raytracer over one of the lenses, no call yet
InitOver(among) == InitSeeded(among, {0})

Init == InitOver(Lenses)

\* ------------------------------------------------------------------------
\* SimpleRaytracer.trace_rays_batch
\* ------------------------------------------------------------------------

\* lines 210-212: the call, and the two output arrays of zeros
BatchCall(rays, wl) ==
    /\ pc = "idle"
    /\ ray_origins' = [k \in DOMAIN rays |-> rays[k].origin]
    /\ ray_directions' = [k \in DOMAIN rays |-> rays[k].direction]
    /\ wavelength' = wl
    /\ exit_pos' = [k \in DOMAIN rays |-> Zero3]
    /\ exit_dir' = [k \in DOMAIN rays |-> Zero3]
    /\ i' = 1
    /\ pc' = "batch"
    /\ entry' = Snapshot(elements, ray_origins', ray_directions')
    /\ UNCHANGED <<elements, result, outsideTrace>>

\* lines 217-223: the rows stored for one ray
MarkResultNoMarker(ret) ==
    IF ret[1] # None THEN ret ELSE <<Zero3, Zero3>>

MarkResult(ret) ==
    IF ret[1] # None THEN ret ELSE <<NaN3, NaN3>>

\* where the loop goes after the call of trace_ray for one ray
BatchPcAfterAbort(st) ==
    IF st.ret # "run" THEN "raised" ELSE "batch"

BatchPcAfter(st) ==
    IF st.ret = "ZeroDivisionError" THEN "raised" ELSE "batch"

\* lines 214-223: one iteration of the loop
BatchStep ==
    /\ pc = "batch"
    /\ i <= num_rays
    /\ LET st == TraceState(elements, ray_origins[i], ray_directions[i],
                            wavelength)
           row == MarkResult(TraceReturn(st))
       IN  /\ elements' = st.elements
           /\ ray_origins' = [ray_origins EXCEPT ![i] = st.ray_origin]
           /\ ray_directions' = [ray_directions EXCEPT ![i] = st.ray_direction]
           /\ pc' = BatchPcAfter(st)
           /\ IF pc' = "raised"
              THEN UNCHANGED <<exit_pos, exit_dir, i>>
              ELSE /\ exit_pos' = [exit_pos EXCEPT ![i] = row[1]]
                   /\ exit_dir' = [exit_dir EXCEPT ![i] = row[2]]
                   /\ i' = i + 1
    /\ UNCHANGED <<wavelength, result, entry, outsideTrace>>

\* line 225
BatchReturn ==
    /\ pc = "batch"
    /\ i > num_rays
    /\ pc' = "returned"
    /\ UNCHANGED <<elements, ray_origins, ray_directions, wavelength, i,
                   exit_pos, exit_dir, result, entry, outsideTrace>>

\* a direct call of trace_ray, as the tests make it
TraceRayCall(ray, wl) ==
    /\ pc = "idle"
    /\ LET st == TraceState(elements, ray.origin, ray.direction, wl)
       IN  /\ elements' = st.elements
           /\ ray_origins' = <<st.ray_origin>>
           /\ ray_directions' = <<st.ray_direction>>
           /\ result' = TraceReturn(st)
           /\ pc' = IF st.ret = "ZeroDivisionError" THEN "raised"
                    ELSE "ray_returned"
    /\ wavelength' = wl
    /\ entry' = Snapshot(elements, <<ray.origin>>, <<ray.direction>>)
    /\ UNCHANGED <<i, exit_pos, exit_dir, outsideTrace>>

Batches == UNION {[1..n -> Rays] : n \in 0..MaxRays}

Next ==
    \/ \E rays \in Batches, wl \in Wavelengths : BatchCall(rays, wl)
    \/ BatchStep
    \/ BatchReturn
    \/ \E ray \in Rays, wl \in Wavelengths : TraceRayCall(ray, wl)

Spec == Init /\ [][Next]_vars

\* ------------------------------------------------------------------------
\* Properties of the raytracer
\* ------------------------------------------------------------------------

\* the return statements of trace_ray that report a ray as failed
PerRayFailures == {"parallel", "behind", "vignetted", "outside", "tir"}

\* the return statement the trace of ray k of the current call takes
Cause(k) ==
    TraceState(entry.elements, entry.ray_origins[k], entry.ray_directions[k],
               wavelength).ret

\* what trace_ray returns for ray k of the current call, traced on its own
Alone(k) ==
    trace_ray(entry.elements, entry.ray_origins[k], entry.ray_directions[k],
              wavelength)

\* C1: when trace_rays_batch returns, exit_pos and exit_dir have one row per
\* input ray, and row k is what trace_ray returns for ray k traced on its
\* own through the lens as it was at the call: the exit position and
\* direction on success, the NaN marker on failure.
C1_BatchRowsAreTraceRay ==
    pc = "returned" =>
        /\ Len(exit_pos) = Len(entry.ray_origins)
        /\ Len(exit_dir) = Len(entry.ray_origins)
        /\ \A k \in 1..Len(entry.ray_origins) :
              IF Alone(k)[1] # None
              THEN exit_pos[k] = Alone(k)[1] /\ exit_dir[k] = Alone(k)[2]
              ELSE exit_pos[k] = NaN3 /\ exit_dir[k] = NaN3

\* a batch of two through the test lens: the first ray comes through, the
\* second is lost to total internal reflection
C1_Witness ==
    /\ pc = "returned"
    /\ entry.elements = TestLens
    /\ num_rays = 2
    /\ Cause(1) = "run" /\ exit_pos[1] = <<0, 0, 10 * PosScale>>
    /\ Cause(2) = "tir" /\ exit_pos[2] = NaN3

\* C2: a ray that fails (parallel, behind, vignetted, outside the sphere,
\* total internal reflection) never raises: the loop stores the NaN marker
\* in its row and goes on to the next ray; an exception leaves the batch
\* only from a call that fails for another reason.
C2_FailureDoesNotAbortBatch ==
    /\ [](pc = "raised" => Cause(i) \notin PerRayFailures)
    /\ [][(pc = "batch" /\ i <= num_rays /\ Cause(i) \in PerRayFailures)
            => /\ pc' = "batch"
               /\ i' = i + 1
               /\ exit_pos'[i] = NaN3
               /\ exit_dir'[i] = NaN3]_vars

\* a returned batch whose first ray was vignetted and whose second ray was
\* traced through both surfaces of the window
C2_Witness ==
    /\ pc = "returned"
    /\ entry.elements = WindowLens
    /\ num_rays = 2
    /\ Cause(1) = "vignetted" /\ exit_pos[1] = NaN3
    /\ Cause(2) = "run" /\ exit_pos[2][3] = 5 * PosScale

\* C3 as stated: through zero elements trace_ray returns the input position
\* and the input direction unchanged.
C3_EmptyLensIdentity ==
    (pc = "ray_returned" /\ Len(entry.elements) = 0) =>
        result = <<entry.ray_origins[1], entry.ray_directions[1]>>

\* C3 amended: through zero elements trace_ray succeeds and returns the
\* input position unchanged and the input direction divided by its norm,
\* which is the input direction when that norm is 1.
C3_EmptyLensNormalizes ==
    (pc = "ray_returned" /\ Len(entry.elements) = 0) =>
        LET d == entry.ray_directions[1]
        IN  /\ result[1] = entry.ray_origins[1]
            /\ result[2] # None
            /\ result[2] = VUnit(d, VNorm(d))
            /\ (VNorm(d) = DirScale => result[2] = d)

\* the direction [0.1, 0, 1] through the empty lens comes back shortened
C3_Witness ==
    /\ pc = "ray_returned"
    /\ Len(entry.elements) = 0
    /\ entry.ray_directions[1] = <<100, 0, DirScale>>
    /\ result[1] = entry.ray_origins[1]
    /\ result[2] # entry.ray_directions[1]

\* the on-axis ray of the test through the test lens
OnAxisThroughTestLens ==
    /\ pc = "ray_returned"
    /\ entry.elements = TestLens
    /\ entry.ray_origins[1] = OnAxisRay.origin
    /\ entry.ray_directions[1] = OnAxisRay.direction

\* C4 as stated: the on-axis ray through the test lens succeeds and its exit
\* position has z strictly greater than the first element's thickness.
C4_ExitBeyondFirstThickness ==
    OnAxisThroughTestLens =>
        /\ result[1] # None
        /\ result[1][3] > TestLens[1].thickness

\* C4 amended: the on-axis ray through the test lens succeeds and its exit
\* position lies on the axis at z equal to the first element's thickness,
\* the vertex of the last surface (so z >= 10, not z > 10).
C4_ExitAtLastVertex ==
    OnAxisThroughTestLens =>
        /\ result[1] # None
        /\ result[1] = <<0, 0, TestLens[1].thickness>>
        /\ result[2] = <<0, 0, DirScale>>

C4_Witness ==
    /\ OnAxisThroughTestLens
    /\ wavelength = 550
    /\ result[1] # None

\* C5: two rays of a batch that fail for different causes have
\* distinguishable results.
C5_FailureCauseDistinguishable ==
    pc = "returned" =>
        \A j, k \in 1..num_rays :
            (/\ Cause(j) \in PerRayFailures
             /\ Cause(k) \in PerRayFailures
             /\ Cause(j) # Cause(k))
            => <<exit_pos[j], exit_dir[j]>> # <<exit_pos[k], exit_dir[k]>>

\* the call's locals after the first s surfaces, for ray k of the call
AfterSurfaces(k, s) ==
    TraceFrom(TraceStart(entry.elements, entry.ray_origins[k],
                         entry.ray_directions[k]), 1, s, wavelength)

\* the point pos lies farther from the axis than the clear aperture reaches
OutsideAperture(pos, element) ==
    FGt(FMul(4, FAdd(FMul(pos[1], pos[1], 1), FMul(pos[2], pos[2], 1)), 1),
        element.diameter * element.diameter)

\* C6: no ray is traced on through a surface that it meets outside the
\* clear aperture: after every surface a ray has passed, its intersection
\* point with that surface is within diameter/2 of the axis.
C6_NoRayPassesOutsideAperture ==
    pc \in {"returned", "ray_returned"} =>
        \A k \in 1..num_rays : \A s \in 1..Len(entry.elements) :
            AfterSurfaces(k, s).ret = "run" =>
                ~OutsideAperture(AfterSurfaces(k, s).pos, entry.elements[s])

\* C8: from the call to the return (or the exception) the caller's origin
\* and direction arrays and the lens elements hold the values they had when
\* the call began.
C8_InputsUnchanged ==
    pc \in {"batch", "returned", "ray_returned", "raised"} =>
        /\ elements = entry.elements
        /\ ray_origins = entry.ray_origins
        /\ ray_directions = entry.ray_directions

\* a returned batch in which a ray of non-unit direction was normalised and
\* refracted at both surfaces of the window, and another ray failed
C8_Witness ==
    /\ pc = "returned"
    /\ entry.elements = WindowLens
    /\ num_rays = 2
    /\ ray_directions[1] = <<100, 0, DirScale>>
    /\ Cause(1) = "run" /\ exit_dir[1] # ray_directions[1]
    /\ Cause(2) = "parallel"

\* ------------------------------------------------------------------------
\* One raytracer, called again and again
\* ------------------------------------------------------------------------

\* two plane-parallel plates with an air gap: three refracting surfaces
PlateStack ==
    <<SimpleLensElement(0, 5 * PosScale, "N-BK7", 40 * PosScale),
      SimpleLensElement(0, 10 * PosScale, "air", 40 * PosScale),
      SimpleLensElement(0, 5 * PosScale, "SF5", 40 * PosScale)>>

RepeatLenses == {TestLens, WindowLens, PlateStack}

RepeatRays ==
    {OnAxisRay,
     Ray(5 * PosScale, 0, -10 * PosScale, 0, 0, DirScale),
     Ray(0, 0, -10 * PosScale, 100, 0, DirScale)}

RepeatWavelengths == {550, 450}

RepeatBatches == UNION {[1..n -> RepeatRays] : n \in 0..MaxRepeatRays}

\* the arguments and the outputs of the batch call that has just returned
CallRecord ==
    [ray_origins |-> entry.ray_origins,
     ray_directions |-> entry.ray_directions,
     wavelength |-> wavelength,
     exit_pos |-> exit_pos,
     exit_dir |-> exit_dir,
     others |-> FALSE]

\* the current call has the arguments of the remembered one
SameInputs(m) ==
    /\ m.ray_origins = entry.ray_origins
    /\ m.ray_directions = entry.ray_directions
    /\ m.wavelength = wavelength

\* the caller keeps the outputs of a batch call to compare later ones with
Remember ==
    /\ pc = "returned"
    /\ memo = <<>>
    /\ memo' = <<CallRecord>>
    /\ UNCHANGED <<traceVars, outsideRepeat>>

\* the caller is done with a call's outputs: the raytracer is called again
Again ==
    /\ pc \in {"returned", "ray_returned"}
    /\ pc' = "idle"
    /\ ray_origins' = <<>>
    /\ ray_directions' = <<>>
    /\ wavelength' = 550
    /\ i' = 1
    /\ exit_pos' = <<>>
    /\ exit_dir' = <<>>
    /\ result' = <<None, None>>
    /\ entry' = Snapshot(elements, <<>>, <<>>)
    /\ memo' = IF memo # <<>> /\ ~SameInputs(memo[1])
               THEN <<[memo[1] EXCEPT !.others = TRUE]>>
               ELSE memo
    /\ UNCHANGED <<elements, outsideRepeat>>

InitRepeat == InitOver(RepeatLenses)

NextRepeat ==
    \/ \E rays \in RepeatBatches, wl \in RepeatWavelengths :
          BatchCall(rays, wl)
    \/ BatchStep
    \/ BatchReturn
    \/ \E ray \in RepeatRays, wl \in RepeatWavelengths : TraceRayCall(ray, wl)
    \/ Remember
    \/ Again

SpecRepeat == InitRepeat /\ [][NextRepeat]_vars

\* C7: a call of trace_rays_batch that has the origins, directions and
\* wavelength of an earlier call on the same raytracer returns the outputs
\* that call returned, whatever was called in between.
C7_BatchDeterministic ==
    (pc = "returned" /\ memo # <<>> /\ SameInputs(memo[1])) =>
        /\ exit_pos = memo[1].exit_pos
        /\ exit_dir = memo[1].exit_dir

\* a batch through the plate stack is repeated after a call with other
\* arguments: one ray comes through all three surfaces, one is refracted
C7_Witness ==
    /\ pc = "returned"
    /\ memo # <<>>
    /\ memo[1].others
    /\ SameInputs(memo[1])
    /\ elements = PlateStack
    /\ num_rays = 2
    /\ exit_pos[1] = <<0, 0, 15 * PosScale>>
    /\ Cause(2) = "run" /\ exit_dir[2] # <<0, 0, DirScale>>

\* ------------------------------------------------------------------------
\* A batch partitioned across workers that share one raytracer
\* ------------------------------------------------------------------------

WorkerLenses == {TestLens, WindowLens}

WorkerRays ==
    {OnAxisRay,
     Ray(5 * PosScale, 0, -10 * PosScale, 0, 0, DirScale),
     Ray(0, 0, -10 * PosScale, 100, 0, DirScale)}

WorkerBatches == UNION {[1..n -> WorkerRays] : n \in 0..MaxWorkerRays}

\* pos, direction, current_index, z_vertex and the loop variable are locals
\* of trace_ray: every call has a frame of its own
FrameOnRaytracer(w) == 1

Frame(w) == w

\* the batch is split: every ray is given to one worker
WorkersCall(rays, wl, owners) ==
    /\ pc = "idle"
    /\ ray_origins' = [k \in DOMAIN rays |-> rays[k].origin]
    /\ ray_directions' = [k \in DOMAIN rays |-> rays[k].direction]
    /\ wavelength' = wl
    /\ exit_pos' = [k \in DOMAIN rays |-> Zero3]
    /\ exit_dir' = [k \in DOMAIN rays |-> Zero3]
    /\ pc' = "workers"
    /\ entry' = Snapshot(elements, ray_origins', ray_directions')
    /\ owner' = owners
    /\ w_ray' = [w \in Workers |-> 0]
    /\ frames' = [w \in Workers |-> NoFrame]
    /\ done' = {}
    /\ UNCHANGED <<elements, i, result, outsideWorkers>>

\* the rays of worker w that it has not taken up yet
Pending(w) ==
    {j \in 1..num_rays : owner[j] = w /\ j \notin done}

\* worker w calls trace_ray for its next ray: lines 121-126
WorkerBegin(w) ==
    /\ pc = "workers"
    /\ w_ray[w] = 0
    /\ Pending(w) # {}
    /\ LET j == CHOOSE j \in Pending(w) : \A l \in Pending(w) : j <= l
           st == TraceStart(elements, ray_origins[j], ray_directions[j])
       IN  /\ w_ray' = [w_ray EXCEPT ![w] = j]
           /\ frames' = [frames EXCEPT ![Frame(w)] = [k |-> 1, st |-> st]]
           /\ ray_origins' = [ray_origins EXCEPT ![j] = st.ray_origin]
           /\ ray_directions' = [ray_directions EXCEPT ![j] = st.ray_direction]
    /\ UNCHANGED <<elements, wavelength, pc, i, exit_pos, exit_dir, result,
                   entry, owner, done, outsideWorkers>>

\* worker w runs one iteration of trace_ray's loop: lines 128-193
WorkerSurface(w) ==
    /\ pc = "workers"
    /\ w_ray[w] # 0
    /\ LET f == frames[Frame(w)]
           st == SurfaceStep([f.st EXCEPT !.elements = elements], f.k,
                             wavelength)
       IN  /\ f.st.ret = "run"
           /\ f.k <= Len(elements)
           /\ frames' = [frames EXCEPT ![Frame(w)] = [k |-> f.k + 1,
                                                      st |-> st]]
           /\ elements' = st.elements
    /\ UNCHANGED <<ray_origins, ray_directions, wavelength, pc, i, exit_pos,
                   exit_dir, result, entry, owner, w_ray, done,
                   outsideWorkers>>

\* worker w's call of trace_ray returns and its row is stored: 195, 217-223
WorkerStore(w) ==
    /\ pc = "workers"
    /\ w_ray[w] # 0
    /\ LET f == frames[Frame(w)]
           row == MarkResult(TraceReturn(f.st))
       IN  /\ f.st.ret # "run" \/ f.k > Len(elements)
           /\ exit_pos' = [exit_pos EXCEPT ![w_ray[w]] = row[1]]
           /\ exit_dir' = [exit_dir EXCEPT ![w_ray[w]] = row[2]]
    /\ done' = done \cup {w_ray[w]}
    /\ w_ray' = [w_ray EXCEPT ![w] = 0]
    /\ UNCHANGED <<elements, ray_origins, ray_directions, wavelength, pc, i,
                   result, entry, owner, frames, outsideWorkers>>

\* every row is stored: the workers are joined
WorkersJoin ==
    /\ pc = "workers"
    /\ done = 1..num_rays
    /\ pc' = "joined"
    /\ UNCHANGED <<elements, ray_origins, ray_directions, wavelength, i,
                   exit_pos, exit_dir, result, entry, workerVars,
                   outsideWorkers>>

InitWorkers == InitOver(WorkerLenses)

NextWorkers ==
    \/ \E rays \in WorkerBatches :
          \E owners \in [DOMAIN rays -> Workers] :
              WorkersCall(rays, 550, owners)
    \/ \E w \in Workers : WorkerBegin(w)
    \/ \E w \in Workers : WorkerSurface(w)
    \/ \E w \in Workers : WorkerStore(w)
    \/ WorkersJoin

SpecWorkers == InitWorkers /\ [][NextWorkers]_vars

\* the locals of a call of trace_ray
Locals(st) == <<st.pos, st.direction, st.current_index, st.z_vertex, st.ret>>

\* C9: with the rays of a batch partitioned across workers that share the
\* raytracer, in every interleaving (a) the locals of each worker's call in
\* progress are those of the same ray traced alone up to the same surface,
\* and (b) once the workers are joined every row is the row the sequential
\* batch stores at that index.
C9_WorkersAgreeWithSequential ==
    /\ pc = "workers" =>
          \A w \in Workers :
              w_ray[w] # 0 =>
                  Locals(frames[Frame(w)].st)
                      = Locals(AfterSurfaces(w_ray[w], frames[Frame(w)].k - 1))
    /\ pc = "joined" =>
          \A j \in 1..num_rays :
              <<exit_pos[j], exit_dir[j]>> = MarkResult(Alone(j))

\* two workers are both between the first and the second surface of the
\* test lens, each with a ray of its own
C9_Witness ==
    /\ pc = "workers"
    /\ elements = TestLens
    /\ w_ray[1] = 2 /\ w_ray[2] = 1
    /\ frames[1].k = 2 /\ frames[1].st.ret = "run"
    /\ frames[2].k = 2 /\ frames[2].st.ret = "run"
    /\ frames[1].st.pos # frames[2].st.pos

\* ------------------------------------------------------------------------
\* PolyFitter.optimize_degree
\* ------------------------------------------------------------------------

\* the degrees the search is asked to range over; MinDegrees x MaxDegrees
\* holds empty ranges (max_degree < min_degree) too
MinDegrees == DefaultMinDegree..(DefaultMinDegree + MaxDegreeSpan - 1)
MaxDegrees == (DefaultMinDegree - 1)..(DefaultMinDegree + MaxDegreeSpan - 1)

TargetErrors == {0, DefaultTargetError}

\* what validate() may answer: an RMS error, which is 0 or more, inf or NaN
ValidateErrors == {0, 5, DefaultTargetError, 20, Inf, NaN}

TargetMetStrictly(err, target) == FLt(err, target)

\* error <= target_error
TargetMet(err, target) == FLe(err, target)

\* lines 104-107
OptimizeCall(mn, mx, target) ==
    /\ opt_pc = "idle"
    /\ min_degree' = mn
    /\ max_degree' = mx
    /\ target_error' = target
    /\ best_degree' = mn
    /\ best_error' = Inf
    /\ range_next' = mn
    /\ opt_pc' = "for"
    /\ UNCHANGED <<degree, self_degree, fitter_degree, coeffs, error, opt_ret,
                   fits, validated, outsideOpt>>

\* lines 109-111: the next degree of the range, if there is one
ForDegree ==
    /\ opt_pc = "for"
    /\ IF range_next <= max_degree
       THEN /\ degree' = range_next
            /\ range_next' = range_next + 1
            /\ self_degree' = degree'
            /\ fitter_degree' = degree'
            /\ opt_pc' = "fit"
       ELSE /\ opt_pc' = "return"
            /\ UNCHANGED <<degree, range_next, self_degree, fitter_degree>>
    /\ UNCHANGED <<min_degree, max_degree, target_error, coeffs, error,
                   best_degree, best_error, opt_ret, fits, validated,
                   outsideOpt>>

\* line 112: coeffs = self.fit(optical_system), at the fitter's degree
Fit ==
    /\ opt_pc = "fit"
    /\ coeffs' = fitter_degree
    /\ fits' = Append(fits, fitter_degree)
    /\ opt_pc' = "validate"
    /\ UNCHANGED <<min_degree, max_degree, target_error, range_next, degree,
                   self_degree, fitter_degree, error, best_degree, best_error,
                   opt_ret, validated, outsideOpt>>

\* line 113: error = self.validate(optical_system, coeffs)
Validate(e) ==
    /\ opt_pc = "validate"
    /\ error' = e
    /\ validated' = Append(validated, [degree |-> coeffs, error |-> e])
    /\ opt_pc' = "compare"
    /\ UNCHANGED <<min_degree, max_degree, target_error, range_next, degree,
                   self_degree, fitter_degree, coeffs, best_degree, best_error,
                   opt_ret, fits, outsideOpt>>

\* line 113 when validate raises (np.max of no error at all): the exception
\* leaves optimize_degree
ValidateRaises ==
    /\ opt_pc = "validate"
    /\ opt_pc' = "raised"
    /\ UNCHANGED <<min_degree, max_degree, target_error, range_next, degree,
                   self_degree, fitter_degree, coeffs, error, best_degree,
                   best_error, opt_ret, fits, validated, outsideOpt>>

BetterOrEqual(err, best) == FLe(err, best)

\* error < best_error
Better(err, best) == FLt(err, best)

\* lines 117-123: keep the best, break once the target is met
Compare ==
    /\ opt_pc = "compare"
    /\ IF Better(error, best_error)
       THEN best_degree' = degree /\ best_error' = error
       ELSE UNCHANGED <<best_degree, best_error>>
    /\ opt_pc' = IF TargetMet(error, target_error) THEN "return" ELSE "for"
    /\ UNCHANGED <<min_degree, max_degree, target_error, range_next, degree,
                   self_degree, fitter_degree, coeffs, error, opt_ret, fits,
                   validated, outsideOpt>>

\* line 125
OptimizeReturn ==
    /\ opt_pc = "return"
    /\ opt_ret' = <<best_degree, best_error>>
    /\ opt_pc' = "done"
    /\ UNCHANGED <<min_degree, max_degree, target_error, range_next, degree,
                   self_degree, fitter_degree, coeffs, error, best_degree,
                   best_error, fits, validated, outsideOpt>>

\* fit_lens.py lines 126-133: the tool's call of optimize_degree
FitLensOptimize(target) ==
    OptimizeCall(DefaultMinDegree, DefaultMaxDegree, target)

\* fit_lens.py lines 134-135: the tool's report of the search it made
FitLensReport ==
    /\ opt_pc = "done"
    /\ min_degree = DefaultMinDegree
    /\ max_degree = DefaultMaxDegree
    /\ tool_report = ""
    /\ tool_report' = "Optimal degree found"
    /\ UNCHANGED <<optVars, outsideTool>>

InitOpt == InitOver({TestLens})

NextOpt ==
    \/ \E mn \in MinDegrees, mx \in MaxDegrees, target \in TargetErrors :
          OptimizeCall(mn, mx, target)
    \/ \E target \in TargetErrors : FitLensOptimize(target)
    \/ FitLensReport
    \/ ForDegree
    \/ Fit
    \/ \E e \in ValidateErrors : Validate(e)
    \/ ValidateRaises
    \/ Compare
    \/ OptimizeReturn

SpecOpt == InitOpt /\ [][NextOpt]_vars

\* the search stopped early: the last validated error is within the target
StoppedEarly ==
    /\ opt_pc = "done"
    /\ validated # <<>>
    /\ FLe(validated[Len(validated)].error, target_error)

\* C10: optimize_degree fits the degrees min_degree, min_degree + 1, ... in
\* this order and none above max_degree; every fit is followed by the
\* validation of that degree before the next fit; no degree is fitted after
\* one whose validated error is <= target_error; and when the search has
\* stopped early it returns the degree validated last, below which every
\* degree of the range was validated with an error that missed the target.
C10_StopsAtFirstDegreeMeetingTarget ==
    /\ \A k \in 1..Len(fits) :
          fits[k] = min_degree + k - 1 /\ fits[k] <= max_degree
    /\ Len(validated) = IF opt_pc \in {"validate", "raised"}
                        THEN Len(fits) - 1 ELSE Len(fits)
    /\ \A k \in 1..Len(validated) : validated[k].degree = fits[k]
    /\ \A k \in 1..(Len(fits) - 1) :
          ~FLe(validated[k].error, target_error)
    /\ StoppedEarly =>
          /\ opt_ret[1] = validated[Len(validated)].degree
          /\ opt_ret[2] = validated[Len(validated)].error
          /\ \A d \in min_degree..(opt_ret[1] - 1) :
                \E k \in 1..Len(validated) :
                    /\ validated[k].degree = d
                    /\ ~FLe(validated[k].error, target_error)

\* the search stopped at its second degree, below max_degree, on an error
\* equal to the target, after an error that was NaN
C10_Witness ==
    /\ StoppedEarly
    /\ Len(fits) = 2
    /\ opt_ret[1] < max_degree
    /\ validated[1].error = NaN
    /\ validated[2].error = target_error
    /\ target_error = DefaultTargetError

\* the search went through its whole range and met the target nowhere
Exhausted ==
    /\ opt_pc = "done"
    /\ Len(validated) = max_degree - min_degree + 1
    /\ \A k \in 1..Len(validated) : ~FLe(validated[k].error, target_error)

\* what a search that stops early on a met target may return
MetOutcomes ==
    {<<d, e>> : d \in MinDegrees \cup DefaultMinDegree..DefaultMaxDegree,
                e \in {e \in ValidateErrors :
                          \E target \in TargetErrors : FLe(e, target)}}

\* C11: the degree search never claims success when the target was not met:
\* when no degree of the range has an error <= target_error, what
\* optimize_degree returns differs from everything a search that met its
\* target returns, and the fit_lens tool does not report the search as
\* having found the optimal degree.
C11_UnmetTargetIsReportedAsUnmet ==
    (Exhausted /\ validated # <<>>) =>
        /\ opt_ret \notin MetOutcomes
        /\ tool_report # "Optimal degree found"

\* C12: when the search has gone through its whole range, with at least one
\* degree and comparable errors only, without meeting the target, it returns
\* the smallest validated error and the lowest degree validated with it.
C12_ExhaustedReturnsBest ==
    (/\ Exhausted
     /\ validated # <<>>
     /\ \A k \in 1..Len(validated) : ~IsNaN(validated[k].error)) =>
        \E k \in 1..Len(validated) :
            /\ opt_ret = <<validated[k].degree, validated[k].error>>
            /\ \A l \in 1..Len(validated) :
                  /\ validated[k].error <= validated[l].error
                  /\ validated[l].error = validated[k].error
                        => validated[k].degree <= validated[l].degree

\* three degrees missed the target; the smallest error came twice, at the
\* second and at the third degree, and the second degree is returned
C12_Witness ==
    /\ Exhausted
    /\ Len(validated) = 3
    /\ validated[1].error = Inf
    /\ validated[2].error = 20
    /\ validated[3].error = 20
    /\ opt_ret = <<min_degree + 1, 20>>

\* ------------------------------------------------------------------------
\* NumpyPolyFitter: the sample generator
\* ------------------------------------------------------------------------

\* the generator's state after one more number was drawn
RngStep(s) == (5 * s + 3) % RngModulus

RECURSIVE RngAfter(_, _)
\* the generator's state after n numbers were drawn
RngAfter(s, n) == IF n = 0 THEN s ELSE RngAfter(RngStep(s), n - 1)

\* the number in [0, 1) drawn in state s: 0, 0.25, 0.5 or 0.75
RandValue(s) == (NormScale \div 4) * (s % 4)

\* np.random.rand(n), drawn from state s
Rand(s, n) == [k \in 1..n |-> RandValue(RngAfter(s, k - 1))]

\* np.cos(2 * np.pi * v) and np.sin(2 * np.pi * v) for v a quarter of a turn
CosTurn(v) ==
    CASE v = 0 -> NormScale
      [] v = 2 * (NormScale \div 4) -> -NormScale
      [] OTHER -> 0

SinTurn(v) ==
    CASE v = NormScale \div 4 -> NormScale
      [] v = 3 * (NormScale \div 4) -> -NormScale
      [] OTHER -> 0

\* np.linspace(-1, 1, g)[k - 1]
Linspace(g, k) ==
    IF g = 1 THEN -NormScale
    ELSE -NormScale + RDiv(2 * NormScale * (k - 1), g - 1)

\* _generate_sample_points(num_samples), called with np.random in state s:
\* the two arrays, and the state np.random is left in
_generate_sample_points(num_samples, s) ==
    LET grid_size == ISqrt(num_samples)
        n == grid_size * grid_size
        r == [k \in 1..n |-> FSqrt(Rand(s, n)[k], NormScale)]
        theta == Rand(RngAfter(s, n), n)
        all == [sensor_positions |->
                    [k \in 1..n |->
                        <<Linspace(grid_size, ((k - 1) % grid_size) + 1),
                          Linspace(grid_size, ((k - 1) \div grid_size) + 1)>>],
                aperture_positions |->
                    [k \in 1..n |->
                        <<FMul(r[k], CosTurn(theta[k]), NormScale),
                          FMul(r[k], SinTurn(theta[k]), NormScale)>>]]
        kept == IF n < num_samples THEN n ELSE num_samples
    IN  [sensor_positions |-> SubSeq(all.sensor_positions, 1, kept),
         aperture_positions |-> SubSeq(all.aperture_positions, 1, kept),
         rng |-> RngAfter(s, 2 * n)]

\* the sample counts asked for: the squares, and one count that is no square
SampleCounts == {g * g : g \in 1..MaxGrid} \cup {MaxGrid * MaxGrid - 1}

FitDegrees == 0..MaxFitDegree

\* NumpyPolyFitter.__init__(degree, samples)
NewFitter(d, n) ==
    /\ fit_pc = "idle"
    /\ fitter_degree' = d
    /\ samples' = n
    /\ num_coeffs' = NumCoeffs(d)
    /\ gen_prev' = <<>>
    /\ gen_last' = <<>>
    /\ last_fit' = <<>>
    /\ last_validate' = <<>>
    /\ data_fit' = <<>>
    /\ UNCHANGED <<fit_pc, rng, traceVars, outsideFit>>

\* poly_fitter.py line 111: self._fitter.degree = degree, the assignment by
\* which optimize_degree moves the implementation to the next degree
SetDegree(d) ==
    /\ fit_pc = "idle"
    /\ fitter_degree' = d
    /\ UNCHANGED <<fit_pc, samples, num_coeffs, rng, gen_prev, gen_last,
                   last_fit, last_validate, data_fit, traceVars, outsideFit>>

\* a call of _generate_sample_points(num_samples), the first one or the
\* one that follows another
GenerateCall(n) ==
    /\ fit_pc \in {"idle", "generated"}
    /\ fit_pc' = "generated"
    /\ LET g == _generate_sample_points(n, rng)
       IN  /\ gen_last' = <<[num_samples |-> n,
                             sensor_positions |-> g.sensor_positions,
                             aperture_positions |-> g.aperture_positions]>>
           /\ rng' = g.rng
    /\ gen_prev' = gen_last
    /\ last_fit' = <<>>
    /\ last_validate' = <<>>
    /\ data_fit' = <<>>
    /\ UNCHANGED <<fitter_degree, samples, num_coeffs, traceVars, outsideFit>>

\* ------------------------------------------------------------------------
\* NumpyPolyFitter: rays, basis, fit
\* ------------------------------------------------------------------------

\* optical_system.get('sensor_width', 36.0), .get('aperture', 25.0),
\* .get('focal_length', 50.0)
SensorWidth == 36 * PosScale
ApertureDiameter == 25 * PosScale
FocalLength == 50 * PosScale

\* _generate_rays for one sample: the origin on the sensor plane and the
\* normalised direction towards the aperture point
_generate_rays(sensor, aperture) ==
    LET sensor_x == RDiv(sensor[1] * SensorWidth, 2 * NormScale)
        sensor_y == RDiv(sensor[2] * SensorWidth, 2 * NormScale)
        aperture_x == RDiv(aperture[1] * ApertureDiameter, 2 * NormScale)
        aperture_y == RDiv(aperture[2] * ApertureDiameter, 2 * NormScale)
        towards == <<aperture_x - sensor_x, aperture_y - sensor_y,
                     FocalLength>>
    IN  [origin |-> <<sensor_x, sensor_y, 0>>,
         direction |-> VUnit(towards, VNorm(towards))]

\* trace_rays_batch as a function of its arguments: the two output arrays
BatchRows(els, rays, wl) ==
    [k \in DOMAIN rays |->
        MarkResult(trace_ray(els, rays[k].origin, rays[k].direction, wl))]

\* ~np.isnan(exit_positions[:, 0]): the rows kept as valid
ValidRowsAll(rows) == [k \in DOMAIN rows |-> TRUE]

ValidRows(rows) == [k \in DOMAIN rows |-> ~IsNaN(rows[k][1][1])]

RECURSIVE Masked(_, _)
\* a[valid]: the rows of a that the mask keeps, in order
Masked(a, valid) ==
    IF a = <<>> THEN <<>>
    ELSE (IF Head(valid) THEN <<Head(a)>> ELSE <<>>)
         \o Masked(Tail(a), Tail(valid))

RECURSIVE Pow(_, _)
\* x ** n for a normalised x; x ** 0 is 1
Pow(x, n) == IF n = 0 THEN NormScale ELSE FMul(Pow(x, n - 1), x, NormScale)

\* x**i * y**j, for a term [i, j]
Monomial(x, y, term) == FMul(Pow(x, term.i), Pow(y, term.j), NormScale)

RECURSIVE FeatureLoop(_, _, _, _)
\* lines 314-317: for total_deg in range(degree + 1): for i in
\* range(total_deg + 1): j = total_deg - i; features.append(x**i * y**j);
\* xp is the loop variable i
FeatureLoop(d, total_deg, xp, features) ==
    IF total_deg > d THEN features
    ELSE IF xp > total_deg
         THEN FeatureLoop(d, total_deg + 1, 0, features)
         ELSE FeatureLoop(d, total_deg, xp + 1,
                          Append(features, [i |-> xp, j |-> total_deg - xp]))

\* _build_polynomial_features(X, degree): the matrix of shape
\* (rows of X, number of terms), one row of values per row of X
_build_polynomial_features(X, d) ==
    LET features == FeatureLoop(d, 0, 0, <<>>)
    IN  [columns |-> Len(features),
         rows |-> [r \in DOMAIN X |->
                      [k \in DOMAIN features |->
                          Monomial(X[r][1], X[r][2], features[k])]]]

RECURSIVE DesignLoopXOnly(_, _, _, _, _, _)
\* the loops with idx left at 0
DesignLoopXOnly(pos, d, total_deg, xp, idx, A) ==
    IF total_deg > d THEN A
    ELSE IF xp > total_deg
         THEN DesignLoopXOnly(pos, d, total_deg + 1, 0, idx, A)
         ELSE DesignLoopXOnly(pos, d, total_deg, xp + 1, idx,
                  [A EXCEPT !.rows =
                      [r \in DOMAIN pos |->
                          [A.rows[r] EXCEPT ![idx + 1] =
                              Monomial(pos[r][1], pos[r][2],
                                       [i |-> xp, j |-> total_deg - xp])]]])

RECURSIVE DesignLoop(_, _, _, _, _, _)
\* poly_fitter.py lines 181-188: for total_deg in range(degree + 1): for i
\* in range(total_deg + 1): j = total_deg - i; A[:, idx] = x**i * y**j;
\* idx += 1; xp is the loop variable i
DesignLoop(pos, d, total_deg, xp, idx, A) ==
    IF total_deg > d THEN A
    ELSE IF xp > total_deg
         THEN DesignLoop(pos, d, total_deg + 1, 0, idx, A)
         ELSE DesignLoop(pos, d, total_deg, xp + 1, idx + 1,
                  [A EXCEPT !.rows =
                      [r \in DOMAIN pos |->
                          [A.rows[r] EXCEPT ![idx + 1] =
                              Monomial(pos[r][1], pos[r][2],
                                       [i |-> xp, j |-> total_deg - xp])]]])

\* poly_fitter.py lines 175-188: A = np.zeros((num_samples, num_coeffs)),
\* then filled column by column
DesignMatrix(pos, d) ==
    DesignLoop(pos, d, 0, 0, 0,
               [columns |-> NumCoeffs(d),
                rows |-> [r \in DOMAIN pos |->
                             [k \in 1..NumCoeffs(d) |-> 0]]])

\* the values a coefficient of a least-squares solution takes in the model
CoeffValues == {0, 1500}

\* np.linalg.lstsq(a, b, rcond=None)[0]: one coefficient per column of a,
\* whatever the rank of a; all 0 when a has no row.  The model does not
\* compute the solution: c stands for its values.
lstsq(a, c) ==
    [k \in 1..a.columns |-> IF a.rows = <<>> THEN 0 ELSE c]

\* lines 62-64 and 131-133: the ray of every sample
SampleRays(g) ==
    [k \in DOMAIN g.sensor_positions |->
        _generate_rays(g.sensor_positions[k], g.aperture_positions[k])]

\* the x, y, z columns of exit_positions
Positions(rows) == [k \in DOMAIN rows |-> rows[k][1]]

\* NumpyPolyFitter.fit(optical_system): the samples, their rays, the rows
\* traced, the mask, the rows kept, the two feature matrices, the four
\* least-squares solutions
FitCall(c) ==
    /\ fit_pc = "idle"
    /\ \E g \in {_generate_sample_points(samples, rng)} :
       \E rays \in {SampleRays(g)} :
       \E rows \in {BatchRows(elements, rays, 550)} :
       \E valid \in {ValidRows(rows)} :
       \E kept \in {Masked(g.sensor_positions, valid)} :
       \E exit_kept \in {Positions(Masked(rows, valid))} :
       \E features \in {_build_polynomial_features(kept, fitter_degree)} :
       \E back \in {_build_polynomial_features(exit_kept, fitter_degree)} :
          /\ rng' = g.rng
          /\ last_fit' =
                <<[sensor_positions |-> g.sensor_positions,
                   rays |-> rays,
                   traced |-> Len(rays),
                   num_valid |-> Len(kept),
                   valid_positions |-> kept,
                   warned |-> Len(kept) < num_coeffs * 2,
                   degree |-> fitter_degree,
                   features |-> features,
                   ret |-> <<[exit_pupil_x |-> lstsq(features, c),
                              exit_pupil_y |-> lstsq(features, c),
                              entrance_pupil_x |-> lstsq(back, c),
                              entrance_pupil_y |-> lstsq(back, c)]>>]>>
    /\ fit_pc' = "fit"
    /\ last_validate' = <<>>
    /\ gen_prev' = <<>>
    /\ gen_last' = <<>>
    /\ data_fit' = <<>>
    /\ UNCHANGED <<fitter_degree, samples, num_coeffs, traceVars, outsideFit>>

RECURSIVE SeqSum(_)
\* np.sum of a one-dimensional array
SeqSum(a) == IF a = <<>> THEN 0 ELSE FAdd(Head(a), SeqSum(Tail(a)))

\* np.mean: NaN for an empty array
SeqMean(a) == IF a = <<>> THEN NaN ELSE FDiv(SeqSum(a), Len(a), 1)

RECURSIVE SeqMax(_)
\* np.max of a non-empty array; a NaN entry makes it NaN
SeqMax(a) ==
    IF Len(a) = 1 THEN a[1]
    ELSE LET m == SeqMax(Tail(a))
         IN  IF IsNaN(a[1]) \/ IsNaN(m) THEN NaN
             ELSE IF a[1] > m THEN a[1] ELSE m

\* features_row @ coeffs: the coefficients are positions per unit of a term
MatVec(row, cs) ==
    SeqSum([k \in DOMAIN row |-> FMul(row[k], cs[k], NormScale)])

\* _evaluate_polynomial(sensor_pos, aperture_pos, coefficients), lines
\* 334-344, for a fitter of degree d
_evaluate_polynomial(sensor_pos, d, coefficients) ==
    LET features == _build_polynomial_features(sensor_pos, d)
    IN  [k \in DOMAIN sensor_pos |->
            <<MatVec(features.rows[k], coefficients.exit_pupil_x),
              MatVec(features.rows[k], coefficients.exit_pupil_y),
              0>>]

\* the test samples validate may be asked for
TestSampleCounts == SampleCounts

\* lines 147-150: the distance between the two positions of every row
RowNorms(real, poly) ==
    [k \in DOMAIN real |-> VNorm(VAdd(real[k], VNeg(poly[k])))]

\* errors ** 2
Squares(errors) == [k \in DOMAIN errors |-> FMul(errors[k], errors[k], 1)]

\* NumpyPolyFitter.validate(optical_system, coefficients, test_samples) with
\* the coefficients the fit has just returned: the test samples, their
\* rays, the rows traced, the polynomial's rows, the mask, the errors of the
\* rows kept and their statistics; np.max of an empty array raises
\* ValueError
ValidateCall(test_samples) ==
    /\ fit_pc = "fit"
    /\ \E g \in {_generate_sample_points(test_samples, rng)} :
       \E rays \in {SampleRays(g)} :
       \E rows \in {BatchRows(elements, rays, 550)} :
       \E poly \in {_evaluate_polynomial(g.sensor_positions, fitter_degree,
                                        last_fit[1].ret[1])} :
       \E valid \in {ValidRows(rows)} :
       \E errors \in {RowNorms(Masked(Positions(rows), valid),
                              Masked(poly, valid))} :
       \E rms_error \in {FSqrt2(SeqMean(Squares(errors)))} :
          /\ rng' = g.rng
          /\ last_validate' =
                <<[test_samples |-> test_samples,
                   sensor_positions |-> g.sensor_positions,
                   rays |-> rays,
                   exit_positions_poly |-> poly,
                   rms_error |-> rms_error,
                   max_error |-> IF errors = <<>> THEN <<>>
                                 ELSE <<SeqMax(errors)>>,
                   mean_error |-> SeqMean(errors),
                   ret |-> IF errors = <<>> THEN <<>> ELSE <<rms_error>>]>>
          /\ fit_pc' = IF errors = <<>> THEN "validate_raised"
                       ELSE "validated"
    /\ UNCHANGED <<fitter_degree, samples, num_coeffs, gen_prev, gen_last,
                   last_fit, data_fit, traceVars, outsideFit>>

\* the sensor positions handed to fit_polynomial_from_data
DataPoints == {<<NormScale \div 2, -NormScale>>, <<-NormScale, NormScale \div 4>>}

DataPositions == UNION {[1..n -> DataPoints] : n \in 1..MaxDataRows}

DataDegrees == 0..MaxDataDegree

\* fit_polynomial_from_data(sensor_positions, ..., degree)
DataFitCall(pos, d, c) ==
    /\ fit_pc = "idle"
    /\ \E A \in {DesignMatrix(pos, d)} :
          data_fit' = <<[positions |-> pos,
                         degree |-> d,
                         A |-> A,
                         ret |-> <<[exit_pupil_x |-> lstsq(A, c),
                                    exit_pupil_y |-> lstsq(A, c),
                                    degree |-> d,
                                    num_samples |-> Len(pos)]>>]>>
    /\ fit_pc' = "data_fit"
    /\ gen_prev' = <<>>
    /\ gen_last' = <<>>
    /\ last_fit' = <<>>
    /\ last_validate' = <<>>
    /\ UNCHANGED <<fitter_degree, samples, num_coeffs, rng, traceVars,
                   outsideFit>>

\* the caller goes on after a call of the fitter has returned
FitterIdle ==
    /\ fit_pc # "idle"
    /\ fit_pc' = "idle"
    /\ gen_prev' = <<>>
    /\ gen_last' = <<>>
    /\ last_fit' = <<>>
    /\ last_validate' = <<>>
    /\ data_fit' = <<>>
    /\ UNCHANGED <<fitter_degree, samples, num_coeffs, rng, traceVars,
                   outsideFit>>

FitLenses == {TestLens, WindowLens}

InitFit == InitSeeded(FitLenses, RngStates)

NextFit ==
    \/ \E d \in FitDegrees, n \in SampleCounts : NewFitter(d, n)
    \/ \E n \in SampleCounts : GenerateCall(n)
    \/ \E c \in CoeffValues : FitCall(c)
    \/ \E n \in TestSampleCounts : ValidateCall(n)
    \/ \E pos \in DataPositions, d \in DataDegrees, c \in CoeffValues :
          DataFitCall(pos, d, c)
    \/ FitterIdle

SpecFit == InitFit /\ [][NextFit]_vars

\* the fitter as optimize_degree drives it: its calls, and the assignment of
\* a degree between them
NextFitSearch ==
    \/ NextFit
    \/ \E d \in FitDegrees : SetDegree(d)

SpecFitSearch == InitFit /\ [][NextFitSearch]_vars

\* the fit found fewer valid rays than twice the number of coefficients
TooFewValidRays ==
    /\ fit_pc = "fit"
    /\ last_fit[1].num_valid < 2 * NumCoeffs(last_fit[1].degree)

\* C13: fit fails fast and returns no coefficients whenever fewer than
\* 2 x num_coeffs rays were traced successfully, zero included.
C13_FitFailsFastOnFewRays ==
    TooFewValidRays => last_fit[1].ret = <<>>

\* a fit has returned coefficients for a matrix with fewer rows than
\* columns, whose rank is therefore lower than the number of basis terms
FitReturnedRankDeficient ==
    /\ fit_pc = "fit"
    /\ Len(last_fit[1].features.rows) < last_fit[1].features.columns
    /\ last_fit[1].ret # <<>>

DataFitReturnedRankDeficient ==
    /\ fit_pc = "data_fit"
    /\ Len(data_fit[1].A.rows) < data_fit[1].A.columns
    /\ data_fit[1].ret # <<>>

\* C14: neither NumpyPolyFitter.fit nor fit_polynomial_from_data returns
\* coefficients as a normal result when the basis matrix has a rank lower
\* than the number of basis terms.
C14_RankDeficientIsReported ==
    ~FitReturnedRankDeficient /\ ~DataFitReturnedRankDeficient

\* the index (from 0) of x^xp * y^yp when the terms go by increasing total
\* degree and, within one total degree, by decreasing power of x
IndexXFirst(xp, yp) == NumCoeffs(xp + yp - 1) + yp

\* the row of a feature matrix for the point pt holds, at the index of every
\* term of total degree <= d, the value of that term at pt
RowIsXFirst(row, pt, d) ==
    \A xp \in 0..d : \A yp \in 0..(d - xp) :
        row[IndexXFirst(xp, yp) + 1] = Monomial(pt[1], pt[2],
                                                [i |-> xp, j |-> yp])

\* C15: the basis monomials are enumerated by increasing total degree and,
\* within one total degree, by decreasing power of x, so that for a degree
\* >= 1 index 0 is the constant term, index 1 the linear-x term and index 2
\* the linear-y term: in the matrix fit builds and in the matrix
\* fit_polynomial_from_data builds.
C15_TermsByDecreasingPowerOfX ==
    /\ fit_pc = "fit" =>
          \A r \in DOMAIN last_fit[1].features.rows :
              RowIsXFirst(last_fit[1].features.rows[r],
                          last_fit[1].valid_positions[r], last_fit[1].degree)
    /\ fit_pc = "data_fit" =>
          \A r \in DOMAIN data_fit[1].A.rows :
              RowIsXFirst(data_fit[1].A.rows[r], data_fit[1].positions[r],
                          data_fit[1].degree)

\* C16: for every degree, fit_polynomial_from_data fills its matrix with the
\* monomials in the order in which _build_polynomial_features, which fit and
\* _evaluate_polynomial both call, lists them: on the same positions the two
\* matrices are equal, column by column.
C16_SameTermOrderInFitAndEvaluate ==
    fit_pc = "data_fit" =>
        data_fit[1].A = _build_polynomial_features(data_fit[1].positions,
                                                   data_fit[1].degree)

\* a matrix of degree 5, 21 columns, in which the columns of y^5 and x^5
\* differ
C16_Witness ==
    /\ fit_pc = "data_fit"
    /\ data_fit[1].degree = 5
    /\ data_fit[1].A.columns = 21
    /\ data_fit[1].A.rows[1][16] # data_fit[1].A.rows[1][21]

\* C17: every coefficient vector a fit returns has (D + 1)(D + 2) / 2
\* entries for the degree D it was fitted with: the four vectors of
\* NumpyPolyFitter.fit and the two of fit_polynomial_from_data.
C17_CoefficientCount ==
    /\ fit_pc = "fit" =>
          \A v \in {last_fit[1].ret[1].exit_pupil_x,
                    last_fit[1].ret[1].exit_pupil_y,
                    last_fit[1].ret[1].entrance_pupil_x,
                    last_fit[1].ret[1].entrance_pupil_y} :
              2 * Len(v) = (last_fit[1].degree + 1) * (last_fit[1].degree + 2)
    /\ fit_pc = "data_fit" =>
          \A v \in {data_fit[1].ret[1].exit_pupil_x,
                    data_fit[1].ret[1].exit_pupil_y} :
              2 * Len(v) = (data_fit[1].degree + 1) * (data_fit[1].degree + 2)

\* fit_polynomial_from_data has returned 21 coefficients for the degree 5
C17_Witness ==
    /\ fit_pc = "data_fit"
    /\ data_fit[1].degree = 5
    /\ Len(data_fit[1].ret[1].exit_pupil_x) = 21
    /\ Len(data_fit[1].ret[1].exit_pupil_y) = 21

RECURSIVE SetSum(_, _)
\* the sum of fn over the set S
SetSum(fn, S) ==
    IF S = {} THEN 0
    ELSE LET k == CHOOSE k \in S : TRUE
         IN  fn[k] + SetSum(fn, S \ {k})

\* the validation rays that trace_ray carries through the lens
TracedRays ==
    {k \in DOMAIN last_validate[1].rays :
        trace_ray(elements, last_validate[1].rays[k].origin,
                  last_validate[1].rays[k].direction, 550)[1] # None}

\* the distance between where the lens and where the polynomial put ray k
RayError(k) ==
    VNorm(VAdd(trace_ray(elements, last_validate[1].rays[k].origin,
                         last_validate[1].rays[k].direction, 550)[1],
               VNeg(last_validate[1].exit_positions_poly[k])))

\* C18: the RMS, mean and max error of validate are those of the
\* validation rays that traced successfully, and of no other ray: a ray
\* that was vignetted is neither counted nor given an error of zero.
C18_StatisticsOverTracedRaysOnly ==
    (last_validate # <<>> /\ TracedRays # {}) =>
        \E err \in {[k \in TracedRays |-> RayError(k)]} :
            /\ last_validate[1].ret =
                  <<ISqrt(RDiv(SetSum([k \in DOMAIN err |-> err[k] * err[k]],
                                      DOMAIN err),
                               Cardinality(DOMAIN err)))>>
            /\ last_validate[1].rms_error = last_validate[1].ret[1]
            /\ last_validate[1].mean_error =
                  RDiv(SetSum(err, DOMAIN err), Cardinality(DOMAIN err))
            /\ \E k \in DOMAIN err :
                  /\ last_validate[1].max_error = <<err[k]>>
                  /\ \A l \in DOMAIN err : err[l] <= err[k]

\* a validation in which some rays were vignetted and some traced, with an
\* error that is not zero
C18_Witness ==
    /\ fit_pc = "validated"
    /\ TracedRays # {}
    /\ TracedRays # DOMAIN last_validate[1].rays
    /\ last_validate[1].ret[1] > 0
    /\ last_validate[1].mean_error < last_validate[1].max_error[1]

\* C20: no sensor-plane input that fit has used is used by the validate
\* that follows it on the same lens, whatever the two sample counts.
C20_FitAndValidateSetsDisjoint ==
    (last_fit # <<>> /\ last_validate # <<>>) =>
        \A a \in DOMAIN last_fit[1].sensor_positions :
            \A b \in DOMAIN last_validate[1].sensor_positions :
                last_fit[1].sensor_positions[a]
                    # last_validate[1].sensor_positions[b]

\* C19: two calls of _generate_sample_points with the same arguments return
\* the same sensor samples and the same aperture samples, whatever was
\* called before them.
C19_SampleGeneratorIsPure ==
    (/\ gen_prev # <<>>
     /\ gen_last # <<>>
     /\ gen_prev[1].num_samples = gen_last[1].num_samples) =>
        gen_prev[1] = gen_last[1]

\* C25: _generate_sample_points(num_samples) returns num_samples sensor
\* positions and num_samples aperture positions, and fit traces as many rays
\* as the samples it reports its valid rays against.
C25_GeneratorReturnsNumSamples ==
    /\ gen_last # <<>> =>
          /\ Len(gen_last[1].sensor_positions) = gen_last[1].num_samples
          /\ Len(gen_last[1].aperture_positions) = gen_last[1].num_samples
    /\ fit_pc = "fit" => last_fit[1].traced = samples

\* C26: when optimize_degree has returned (d, e), PolyFitter.degree and the
\* degree of the implementation under it are both d.
C26_FitterLeftAtReturnedDegree ==
    opt_pc = "done" =>
        /\ self_degree = opt_ret[1]
        /\ fitter_degree = opt_ret[1]

\* C27: the pair optimize_degree returns is a degree of the range that this
\* search has fitted and validated, with the error validate reported for it.
C27_ReturnedDegreeWasValidated ==
    opt_pc = "done" =>
        /\ min_degree <= opt_ret[1]
        /\ opt_ret[1] <= max_degree
        /\ \E k \in DOMAIN validated :
              /\ validated[k].degree = opt_ret[1]
              /\ validated[k].error = opt_ret[2]

\* C28: num_coeffs of a NumpyPolyFitter is (degree + 1)(degree + 2) / 2 for
\* the degree it has now, also after its degree has been assigned, and the
\* low-ray warning of fit is decided against twice the number of terms of
\* the degree fitted.
C28_NumCoeffsFollowsDegree ==
    /\ 2 * num_coeffs = (fitter_degree + 1) * (fitter_degree + 2)
    /\ fit_pc = "fit" =>
          (last_fit[1].warned <=>
              last_fit[1].num_valid
                  < (last_fit[1].degree + 1) * (last_fit[1].degree + 2))

\* ------------------------------------------------------------------------
\* The locals of one iteration of trace_ray
\* ------------------------------------------------------------------------

\* lines 133-177, for a ray that no check of the iteration turns away: the
\* parameter the ray is advanced by, the point it is advanced to and the
\* normal handed to _refract, at element s for the call's locals st
SurfaceLocals(st, s) ==
    LET radius == st.elements[s].radius
        t_to_vertex == FDiv(FSub(st.z_vertex, st.pos[3]), st.direction[3],
                            DirScale)
        pos_at_vertex == VAdd(st.pos,
                              VScale(t_to_vertex, st.direction, DirScale))
        r == FSqrt2(FAdd(FMul(pos_at_vertex[1], pos_at_vertex[1], 1),
                         FMul(pos_at_vertex[2], pos_at_vertex[2], 1)))
        root == FSqrt2(FSub(radius * radius, FMul(r, r, 1)))
        sag == IF radius > 0 THEN FSub(radius, root)
               ELSE FAdd(-Abs(radius), root)
        t_to_surface == FDiv(FSub(FAdd(st.z_vertex, sag), st.pos[3]),
                             st.direction[3], DirScale)
        pos == VAdd(st.pos, VScale(t_to_surface, st.direction, DirScale))
        normal == <<pos[1], pos[2], sag>>
        unit == VUnit(normal, VNorm(normal))
    IN  IF Abs(radius) > 0
        THEN [t |-> t_to_surface,
              pos |-> pos,
              normal |-> IF FGt(VNorm(normal), 0)
                         THEN (IF radius < 0 THEN VNeg(unit) ELSE unit)
                         ELSE <<0, 0, DirScale>>]
        ELSE [t |-> t_to_vertex,
              pos |-> pos_at_vertex,
              normal |-> <<0, 0, DirScale>>]

\* ray k of the call reaches the refraction at surface s: it has passed
\* the surfaces before s and no check of iteration s returns before line 180
Refracted(k, s) ==
    /\ AfterSurfaces(k, s - 1).ret = "run"
    /\ AfterSurfaces(k, s).ret
           \notin {"parallel", "behind", "vignetted", "outside"}

\* u x v
Cross(u, v) ==
    <<u[2] * v[3] - u[3] * v[2],
      u[3] * v[1] - u[1] * v[3],
      u[1] * v[2] - u[2] * v[1]>>

\* u and v are parallel, to within a hundredth of |u| |v|
Parallel(u, v) ==
    \A c \in 1..3 : 100 * Abs(Cross(u, v)[c]) <= VNorm(u) * VNorm(v)

\* the vector from the centre of the sphere of surface s, on the axis one
\* radius from the vertex, to the point pos
FromCentre(st, s, pos) ==
    <<pos[1], pos[2], pos[3] - (st.z_vertex + st.elements[s].radius)>>

\* C23: at every curved surface a ray is refracted at, the normal handed to
\* the refraction is parallel to the vector from the centre of the sphere to
\* the intersection point, off the axis as well as on it.
C23_NormalIsRadial ==
    pc \in {"returned", "ray_returned"} =>
        \A k \in 1..num_rays : \A s \in 1..Len(entry.elements) :
            (Refracted(k, s) /\ entry.elements[s].radius # 0) =>
                Parallel(SurfaceLocals(AfterSurfaces(k, s - 1), s).normal,
                         FromCentre(AfterSurfaces(k, s - 1), s,
                             SurfaceLocals(AfterSurfaces(k, s - 1), s).pos))

\* C24: at every surface a ray is refracted at, the parameter by which the
\* ray was advanced to its intersection point is not negative: no ray is
\* taken backwards to a surface that lies behind it.
C24_NeverPropagatedBackwards ==
    pc \in {"returned", "ray_returned"} =>
        \A k \in 1..num_rays : \A s \in 1..Len(entry.elements) :
            Refracted(k, s) =>
                SurfaceLocals(AfterSurfaces(k, s - 1), s).t >= 0

\* ------------------------------------------------------------------------
\* SimpleRaytracer.compute_focal_length
\* ------------------------------------------------------------------------

\* the largest number of samples of the small calls
MaxFocalSamples == 5

\* test_numpy_raytracer_fixed.py: compute_focal_length(samples=50)
TestFocalSamples == 50

\* compute_focal_length's default: samples=100
DefaultFocalSamples == 100

FocalSamples == (0..MaxFocalSamples) \cup {TestFocalSamples,
                                            DefaultFocalSamples}

\* np.linspace(lo, hi, n)[k], k counted from 0
FocalLinspace(lo, hi, n, k) ==
    IF n = 1 THEN lo ELSE lo + RDiv((hi - lo) * k, n - 1)

\* the collimated rays: origins across 10 mm at z = 0, directions [0, 0, 1]
FocalRays(n) ==
    [k \in 1..n |->
        Ray(FocalLinspace(-5 * PosScale, 5 * PosScale, n, k - 1), 0, 0,
            0, 0, DirScale)]

\* one pass of the loop over the rays: whether the ray adds a crossing, and
\* the z at which it reaches x = 0
FocalCrossing(row) ==
    IF IsNaN(row[1][1]) \/ row[2][1] = 0 THEN [kept |-> FALSE, focal_z |-> 0]
    ELSE [kept |-> TRUE,
          focal_z |-> FAdd(row[1][3],
                           FMul(FDiv(-row[1][1], row[2][1], DirScale),
                                row[2][3], DirScale))]

KeptCrossing(c) == c.kept

\* focal_distances after the loop
FocalDistances(rows) ==
    SelectSeq([k \in DOMAIN rows |-> FocalCrossing(rows[k])], KeptCrossing)

RECURSIVE CrossingSum(_, _, _)
\* the sum of focal_distances[lo..hi]
CrossingSum(a, lo, hi) ==
    IF lo > hi THEN 0
    ELSE IF lo = hi THEN a[lo].focal_z
    ELSE FAdd(CrossingSum(a, lo, (lo + hi) \div 2),
              CrossingSum(a, ((lo + hi) \div 2) + 1, hi))

\* what compute_focal_length returns once the rays are traced: the mean
\* crossing, in units of 1/PosScale mm, or 0
FocalReturn(rows, focal_distances) ==
    IF \A k \in DOMAIN rows : IsNaN(rows[k][1][1]) THEN 0
    ELSE IF focal_distances # <<>>
         THEN FDiv(CrossingSum(focal_distances, 1, Len(focal_distances)),
                   Len(focal_distances), 1)
    ELSE 0

\* what compute_focal_length leaves alone
outsideFocal == <<repeatVars, workerVars, optVars, toolVars, fitVars, dbVars>>

\* a call of compute_focal_length(samples) on the raytracer
FocalLengthCall(n) ==
    /\ pc = "idle"
    /\ \E rows \in {BatchRows(elements, FocalRays(n), 550)} :
       \E focal_distances \in {FocalDistances(rows)} :
           focal' = <<[samples |-> n,
                       num_valid |-> Cardinality({k \in DOMAIN rows :
                                                    ~IsNaN(rows[k][1][1])}),
                       ret |-> FocalReturn(rows, focal_distances)]>>
    /\ pc' = "focal_returned"
    /\ UNCHANGED <<elements, ray_origins, ray_directions, wavelength, i,
                   exit_pos, exit_dir, result, entry, outsideFocal>>

NextFocal ==
    \/ Next
    \/ \E n \in FocalSamples : FocalLengthCall(n)

SpecFocal == Init /\ [][NextFocal]_vars

\* 1/f = (n - 1)(1/R1 - 1/R2) for the two surfaces of a singlet, as f in
\* units of 1/PosScale mm
ThinLensFocal(els) ==
    RDiv(IndexScale * RDiv(els[1].radius * els[2].radius,
                           els[2].radius - els[1].radius),
         _index_map(els[1].material) - IndexScale)

\* C22: for the biconvex test lens the focal length that
\* compute_focal_length returns is within 20% of the thin-lens value
C22_FocalLengthNearThinLens ==
    (pc = "focal_returned" /\ elements = TestLens) =>
        5 * Abs(focal[1].ret - ThinLensFocal(TestLens))
            < Abs(ThinLensFocal(TestLens))

\* compute_focal_length has returned for the test lens, from the 50 samples
\* of the test
C22_Reached ==
    /\ pc = "focal_returned"
    /\ elements = TestLens
    /\ focal[1].samples = TestFocalSamples

\* ------------------------------------------------------------------------
\* LensDatabase
\* ------------------------------------------------------------------------

\* the stems of the JSON files the database directory can hold
LensIds == {"a", "b"}

\* a coefficient array of n distinct values, the k-th being first + k
Coeffs(n, first) == [k \in 1..n |-> first + k]

\* the content of a lens file: a lens of a degree with n coefficients per
\* output dimension (max_fstop in tenths)
LensData(name, poly_degree, n) ==
    [name |-> name, focal_length |-> 50, max_fstop |-> 20,
     polynomial_degree |-> poly_degree,
     coefficients |-> [exit_pupil_x |-> Coeffs(n, 0),
                       exit_pupil_y |-> Coeffs(n, 100)]]

\* the dict d without a key
Without(d, key) == [k \in (DOMAIN d) \ {key} |-> d[k]]

\* d after d[key] = value
DictPut(d, key, value) ==
    [k \in (DOMAIN d) \cup {key} |-> IF k = key THEN value ELSE d[k]]

\* a file that json.load cannot read
Malformed == [json_error |-> TRUE]

\* what the file of a lens id can hold; the names differ between the ids
FileContents(id) ==
    IF id = "a"
    THEN {LensData("Biotar", 1, NumCoeffs(1)),
          LensData("Tessar", 2, NumCoeffs(2)),
          Without(LensData("Biotar", 1, NumCoeffs(1)), "polynomial_degree")}
    ELSE {LensData("Cooke", 1, NumCoeffs(1)), Malformed}

\* the directories a database can be constructed over
Directories ==
    {dir \in UNION {[ids -> UNION {FileContents(id) : id \in LensIds}] :
                        ids \in SUBSET LensIds} :
        \A id \in DOMAIN dir : dir[id] \in FileContents(id)}

\* the names and ids in the order Python sorts them
Alphabetical == <<"Biotar", "Cooke", "Tessar", "a", "b">>

NameRank(name) ==
    CHOOSE k \in 1..Len(Alphabetical) : Alphabetical[k] = name

\* load_database as a function: self.lenses after the files of a directory
\* have been read over it
load_database(self_lenses, dir) ==
    [id \in (DOMAIN self_lenses)
                \cup {f \in DOMAIN dir : "json_error" \notin DOMAIN dir[f]} |->
        IF id \in DOMAIN dir /\ "json_error" \notin DOMAIN dir[id]
        THEN dir[id] ELSE self_lenses[id]]

\* validate_lens: is_valid
validate_lens(lens_data) ==
    /\ {"name", "focal_length", "max_fstop", "polynomial_degree",
        "coefficients"} \subseteq DOMAIN lens_data
    /\ lens_data.focal_length > 0
    /\ lens_data.max_fstop > 0
    /\ lens_data.polynomial_degree >= 1
    /\ {"exit_pupil_x", "exit_pupil_y"} \subseteq DOMAIN lens_data.coefficients
    /\ Len(lens_data.coefficients.exit_pupil_x) # 0
    /\ Len(lens_data.coefficients.exit_pupil_y) # 0

\* lens_data.get('name', lens_id)
LensName(id, lens_data) ==
    IF "name" \in DOMAIN lens_data THEN lens_data.name ELSE id

RECURSIVE SortedByName(_, _)
\* sorted(lens_list, key=lambda x: x[1]) over the ids of self.lenses
SortedByName(self_lenses, ids) ==
    IF ids = {} THEN <<>>
    ELSE LET first == CHOOSE id \in ids : \A other \in ids :
                          NameRank(LensName(id, self_lenses[id]))
                              <= NameRank(LensName(other, self_lenses[other]))
         IN  <<first>> \o SortedByName(self_lenses, ids \ {first})

\* get_lens_list: the (lens_id, display_name) pairs by name
get_lens_list(self_lenses) ==
    LET order == SortedByName(self_lenses, DOMAIN self_lenses)
    IN  [k \in DOMAIN order |->
            <<order[k], LensName(order[k], self_lenses[order[k]])>>]

\* the menu generate_menu_items builds when nothing is cached
BuildMenu(self_lenses) ==
    LET lens_list == get_lens_list(self_lenses)
    IN  IF lens_list = <<>>
        THEN [menu_items |-> <<"none">>,
              menu_labels |-> <<"No Lenses Available">>]
        ELSE [menu_items |-> [k \in DOMAIN lens_list |-> lens_list[k][1]],
              menu_labels |-> [k \in DOMAIN lens_list |-> lens_list[k][2]]]

\* what get_lens returns (<<>> for None, or <<lens_data>>)
get_lens(id) ==
    IF id \in DOMAIN _validated_lenses THEN <<_validated_lenses[id]>>
    ELSE IF id \notin DOMAIN lenses THEN <<>>
    ELSE IF ~validate_lens(lenses[id]) THEN <<>>
    ELSE <<lenses[id]>>

\* the validated-lens cache after get_lens(id)
CacheAfterGetLens(id) ==
    IF id \notin DOMAIN _validated_lenses /\ get_lens(id) # <<>>
    THEN DictPut(_validated_lenses, id, lenses[id])
    ELSE _validated_lenses

\* what the database calls leave alone
outsideDb == <<traceVars, repeatVars, workerVars, optVars, toolVars, fitVars,
               focalVars>>

\* LensDatabase.__init__ over one of the directories: load_database has run
InitDb ==
    /\ InitOutsideDb({TestLens}, {0})
    /\ files \in Directories
    /\ lenses = load_database(EmptyDict, files)
    /\ _validated_lenses = EmptyDict
    /\ _menu_cache = <<>>
    /\ last_call = <<>>

\* the environment writes or replaces the JSON file of a lens
WriteFile(id, content) ==
    /\ files' = DictPut(files, id, content)
    /\ UNCHANGED <<lenses, _validated_lenses, _menu_cache, last_call,
                   outsideDb>>

\* a call of load_database
LoadDatabase ==
    /\ lenses' = load_database(lenses, files)
    /\ last_call' = <<[call |-> "load_database"]>>
    /\ UNCHANGED <<files, _validated_lenses, _menu_cache, outsideDb>>

\* a call of get_lens(lens_id)
GetLens(id) ==
    /\ _validated_lenses' = CacheAfterGetLens(id)
    /\ last_call' = <<[call |-> "get_lens", lens_id |-> id,
                       ret |-> get_lens(id)]>>
    /\ UNCHANGED <<files, lenses, _menu_cache, outsideDb>>

\* a call of generate_menu_items
GenerateMenuItems ==
    /\ \E menu \in {IF _menu_cache # <<>> THEN _menu_cache[1]
                    ELSE BuildMenu(lenses)} :
           /\ _menu_cache' = <<menu>>
           /\ last_call' = <<[call |-> "generate_menu_items", ret |-> menu]>>
    /\ UNCHANGED <<files, lenses, _validated_lenses, outsideDb>>

\* ------------------------------------------------------------------------
\* Text: what str, format and join write, and what a reader finds in it
\* ------------------------------------------------------------------------

\* a piece of text is a sequence of tokens: the digits of one number, or the
\* literal characters between numbers
Num(c) == <<[kind |-> "num", value |-> c, text |-> ""]>>

Lit(text) == <<[kind |-> "lit", value |-> 0, text |-> text]>>

RECURSIVE NumDigits(_)
\* the number of decimal digits of an integer
NumDigits(c) == IF Abs(c) < 10 THEN 1 ELSE 1 + NumDigits(Abs(c) \div 10)

RECURSIVE Pow10(_)
Pow10(n) == IF n = 0 THEN 1 ELSE 10 * Pow10(n - 1)

\* c rounded to its first digits significant digits
RoundSig(c, digits) ==
    IF NumDigits(c) <= digits THEN c
    ELSE RDiv(c, Pow10(NumDigits(c) - digits)) * Pow10(NumDigits(c) - digits)

\* str(c): the shortest text that reads back as c
Str(c) == Num(c)

\* f'{c:.10e}': one digit before the point and ten after it
FormatE(c) == Num(RoundSig(c, 11))

RECURSIVE JoinWith(_, _)
\* sep.join(parts)
JoinWith(sep, parts) ==
    IF parts = <<>> THEN <<>>
    ELSE IF Len(parts) = 1 THEN parts[1]
    ELSE parts[1] \o sep \o JoinWith(sep, Tail(parts))

\* d.get(key, default)
Get(d, key, default) == IF key \in DOMAIN d THEN d[key] ELSE default

\* a number the reader could not make out
Misread == NaN

\* whether a token ends a field: a comma between the elements of an array
\* literal, white space between the fields of a line
EndsField(token, by) ==
    IF by = "comma" THEN token.text \in {", ", ",\n"}
    ELSE token.text \in {" ", "        "}

\* the positions of the tokens that end a field
FieldEnds(text, by) == {p \in DOMAIN text : EndsField(text[p], by)}

\* where field j starts and ends: after the (j-1)-th end, before the j-th
FieldBound(text, by, j) ==
    IF j = 0 THEN 0
    ELSE IF j > Cardinality(FieldEnds(text, by)) THEN Len(text) + 1
    ELSE CHOOSE p \in FieldEnds(text, by) :
             Cardinality({q \in FieldEnds(text, by) : q < p}) = j - 1

NotWhiteSpace(token) == token.text \notin {" ", "        "}

\* the fields of a text, each without its white space
SplitText(text, by) ==
    [j \in 1..(Cardinality(FieldEnds(text, by)) + 1) |->
        SelectSeq(SubSeq(text, FieldBound(text, by, j - 1) + 1,
                         FieldBound(text, by, j) - 1),
                  NotWhiteSpace)]

\* the number a field reads as: digits that run together, or that stand
\* with other characters, are not the number that was written
ReadField(field) ==
    IF Len(field) = 1 /\ field[1].kind = "num" THEN field[1].value
    ELSE Misread

NonEmpty(field) == field # <<>>

\* the elements of a VEX array literal whose body is the text
ReadArray(text) ==
    IF text = <<>> THEN <<>>
    ELSE LET fields == SplitText(text, "comma")
         IN  [k \in DOMAIN fields |-> ReadField(fields[k])]

\* the numbers of a line of space-separated fields
ReadLine(text) ==
    LET fields == SelectSeq(SplitText(text, "space"), NonEmpty)
    IN  [k \in DOMAIN fields |-> ReadField(fields[k])]

\* ------------------------------------------------------------------------
\* LensDatabase.export_lens_for_vex and VEXGenerator.generate
\* ------------------------------------------------------------------------

\* the most coefficients of one array of the small calls
MaxCoeffs == 6

\* the degree _generate_shader writes for a lens without 'polynomial_degree'
DefaultShaderDegree == 7

\* test_potk_end_to_end.py: fit_polynomial_from_data(..., degree=5)
EndToEndDegree == 5

\* the file export_lens_for_vex writes for a lens, line by line
ExportedLines(lens) ==
    LET lens_coeffs == Get(lens, "coefficients", EmptyDict)
        exit_pupil_x == Get(lens_coeffs, "exit_pupil_x", <<>>)
        exit_pupil_y == Get(lens_coeffs, "exit_pupil_y", <<>>)
    IN  <<Str(Get(lens, "polynomial_degree", 5)),
          Str(Get(lens, "focal_length", 50)),
          Str(Get(lens, "max_fstop", 28)),
          Str(Get(lens, "sensor_width", 36)),
          JoinWith(Lit(" "),
                   [k \in DOMAIN exit_pupil_x |-> Str(exit_pupil_x[k])]),
          JoinWith(Lit(" "),
                   [k \in DOMAIN exit_pupil_y |-> Str(exit_pupil_y[k])])>>

\* a call of export_lens_for_vex(lens_id, output_path), output_path writable
ExportLens(id) ==
    /\ _validated_lenses' = CacheAfterGetLens(id)
    /\ \E lens \in {get_lens(id)} :
           last_call' =
               <<[call |-> "export_lens_for_vex", lens_id |-> id,
                  lens |-> lens, ret |-> lens # <<>>,
                  written |-> IF lens = <<>> THEN <<>>
                              ELSE ExportedLines(lens[1])]>>
    /\ UNCHANGED <<files, lenses, _menu_cache, outsideDb>>

\* for i in range(0, len(coefficients), step): coefficients[i:i+width], each
\* chunk a line of the array
FormatChunks(coefficients, step, width) ==
    LET starts == {i0 \in 0..(Len(coefficients) - 1) : i0 % step = 0}
        chunk(j) == SubSeq(coefficients, step * (j - 1) + 1,
                           IF step * (j - 1) + width < Len(coefficients)
                           THEN step * (j - 1) + width
                           ELSE Len(coefficients))
        line(j) == JoinWith(Lit(", "),
                            [k \in DOMAIN chunk(j) |-> FormatE(chunk(j)[k])])
    IN  JoinWith(Lit(",\n"),
                 [j \in 1..Cardinality(starts) |-> Lit("        ") \o line(j)])

\* chunks of three taken every four coefficients
FormatDroppingFourth(coefficients) == FormatChunks(coefficients, 4, 3)

\* VEXGenerator._format_coefficient_array
_format_coefficient_array(coefficients) == FormatChunks(coefficients, 4, 4)

\* lens_data.get('name', 'unknown_lens').replace(' ', '_').lower()
ShaderLensName(lens_data) ==
    LET name == Get(lens_data, "name", "unknown_lens")
    IN  CASE name = "Biotar" -> "biotar"
          [] name = "Tessar" -> "tessar"
          [] name = "Cooke" -> "cooke"
          [] name = "Double Gauss 50mm f/2" -> "double_gauss_50mm_f/2"
          [] OTHER -> name

\* _generate_shader: what is substituted for each placeholder of the template
_generate_shader(lens_data, coefficients) ==
    LET poly_degree == Get(lens_data, "polynomial_degree",
                           DefaultShaderDegree)
    IN  [LENS_NAME |-> Lit(ShaderLensName(lens_data)),
         FOCAL_LENGTH |-> Str(Get(lens_data, "focal_length", 50)),
         MAX_FSTOP |-> Str(Get(lens_data, "max_fstop", 28)),
         POLYNOMIAL_DEGREE |-> Str(poly_degree),
         COEFFS_X |-> _format_coefficient_array(
                          Get(coefficients, "exit_pupil_x", <<>>)),
         COEFFS_Y |-> _format_coefficient_array(
                          Get(coefficients, "exit_pupil_y", <<>>)),
         POLY_EVAL_CODE |-> Lit("degree-") \o Str(poly_degree)]

\* the lens_data VEXGenerator.generate is called with: lenses of the
\* database, one of them without its degree, and the lens design of
\* test_potk_end_to_end.py
ShaderLensData ==
    {LensData("Biotar", 1, NumCoeffs(1)),
     LensData("Tessar", 2, NumCoeffs(2)),
     Without(LensData("Tessar", 2, NumCoeffs(2)), "polynomial_degree"),
     [name |-> "Double Gauss 50mm f/2", focal_length |-> 50, aperture |-> 20]}

\* the lengths of the coefficient arrays
CoeffLengths ==
    (0..MaxCoeffs) \cup {NumCoeffs(EndToEndDegree),
                         NumCoeffs(DefaultShaderDegree)}

\* the coefficients VEXGenerator.generate is called with: as fit returns
\* them, two arrays of one length; arrays of different lengths; one array
\* alone
ShaderCoefficients ==
    {[exit_pupil_x |-> Coeffs(n, 0), exit_pupil_y |-> Coeffs(n, 100)] :
        n \in CoeffLengths}
    \cup {[exit_pupil_x |-> Coeffs(n, 0), exit_pupil_y |-> Coeffs(n - 1, 100)] :
             n \in 1..MaxCoeffs}
    \cup {[exit_pupil_x |-> Coeffs(NumCoeffs(1), 0)]}

\* a call of VEXGenerator.generate(lens_data, coefficients), with the
\* template file found or not
VexGenerate(lens_data, coefficients, template_found) ==
    /\ last_call' =
           <<[call |-> "generate", lens_data |-> lens_data,
              coefficients |-> coefficients,
              raised |-> IF template_found THEN "" ELSE "FileNotFoundError",
              shader |-> IF template_found
                         THEN <<_generate_shader(lens_data, coefficients)>>
                         ELSE <<>>]>>
    /\ UNCHANGED <<files, lenses, _validated_lenses, _menu_cache, outsideDb>>

NextDb ==
    \/ \E id \in LensIds : \E content \in FileContents(id) :
           WriteFile(id, content)
    \/ LoadDatabase
    \/ \E id \in LensIds \cup {"missing"} : GetLens(id)
    \/ GenerateMenuItems
    \/ \E id \in LensIds \cup {"missing"} : ExportLens(id)

SpecDb == InitDb /\ [][NextDb]_vars

\* the last call was get_lens
GetLensReturned == last_call # <<>> /\ last_call[1].call = "get_lens"

\* the last call was generate_menu_items
MenuReturned ==
    last_call # <<>> /\ last_call[1].call = "generate_menu_items"

\* C30: get_lens(id) returns None or the entry that self.lenses holds for id
\* now, and that entry passes validate_lens; generate_menu_items returns the
\* menu of the lenses that are loaded now
C30_CachesServeCurrentLenses ==
    /\ (GetLensReturned /\ last_call[1].ret # <<>>) =>
           /\ last_call[1].lens_id \in DOMAIN lenses
           /\ last_call[1].ret[1] = lenses[last_call[1].lens_id]
           /\ validate_lens(lenses[last_call[1].lens_id])
    /\ MenuReturned => last_call[1].ret = BuildMenu(lenses)

\* ------------------------------------------------------------------------
\* Serialised models
\* ------------------------------------------------------------------------

NextVex ==
    \/ \E id \in LensIds \cup {"missing"} : ExportLens(id)
    \/ \E lens_data \in ShaderLensData, coefficients \in ShaderCoefficients,
          template_found \in BOOLEAN :
           VexGenerate(lens_data, coefficients, template_found)

SpecVex == InitDb /\ [][NextVex]_vars

\* the last call was export_lens_for_vex and it wrote the file
Exported ==
    /\ last_call # <<>>
    /\ last_call[1].call = "export_lens_for_vex"
    /\ last_call[1].ret

\* the last call was VEXGenerator.generate and it returned a shader
ShaderGenerated ==
    /\ last_call # <<>>
    /\ last_call[1].call = "generate"
    /\ last_call[1].shader # <<>>

\* C21: the coefficients read back from an exported file and from the
\* arrays of a generated shader are the input's, each once and in order
C21_SerialisedCoefficientsReadBack ==
    /\ Exported =>
           /\ ReadLine(last_call[1].written[5])
                  = last_call[1].lens[1].coefficients.exit_pupil_x
           /\ ReadLine(last_call[1].written[6])
                  = last_call[1].lens[1].coefficients.exit_pupil_y
    /\ ShaderGenerated =>
           /\ ReadArray(last_call[1].shader[1].COEFFS_X)
                  = Get(last_call[1].coefficients, "exit_pupil_x", <<>>)
           /\ ReadArray(last_call[1].shader[1].COEFFS_Y)
                  = Get(last_call[1].coefficients, "exit_pupil_y", <<>>)

\* a shader generated from arrays that fill more than one line and leave the
\* last line short
C21_Witness ==
    /\ ShaderGenerated
    /\ Len(Get(last_call[1].coefficients, "exit_pupil_x", <<>>)) > 4
    /\ Len(Get(last_call[1].coefficients, "exit_pupil_x", <<>>)) % 4 # 0
    /\ Len(ReadArray(last_call[1].shader[1].COEFFS_X)) > 4

\* C29: the degree D written into a shader agrees with the arrays embedded
\* in it: (D + 1)(D + 2)/2 coefficients for x and as many for y
C29_ShaderDegreeMatchesCoefficients ==
    ShaderGenerated =>
        LET D == ReadLine(last_call[1].shader[1].POLYNOMIAL_DEGREE)[1]
            num_x == Len(ReadArray(last_call[1].shader[1].COEFFS_X))
            num_y == Len(ReadArray(last_call[1].shader[1].COEFFS_Y))
        IN  /\ 2 * num_x = (D + 1) * (D + 2)
            /\ num_y = num_x

====
